---- MODULE Spec2Model ----
(***************************************************************************)
(* OpenSDL semantic layer (library/utility/opensdl_actions.c): the         *)
(* conditional state machine, the gated dispatcher entry points and the    *)
(* aggregate layout engine, as a state machine over the parser context.    *)
(***************************************************************************)
EXTENDS Integers, Sequences, FiniteSets, TLC

VARIABLES
    condState,          \* context->condState: stack of conditional states, bottom first
    processingEnabled,  \* context->processingEnabled
    langEnableVec,      \* context->langEnableVec[], one flag per language specified
    nodes,              \* the aggregates and subaggregates, context->aggregates first
    currentAggr,        \* context->currentAggr: the open (sub)aggregate, 0 for NULL
    aggregateDepth,     \* context->aggregateDepth
    fillerCount,        \* context->fillerCount
    options,            \* context->options[0 .. optionsIdx-1]
    module,             \* context->module: the module's name, "NULL" for none
    tables,             \* context->locals, constants, declares, items and entries
    literals,           \* the queue of literal lines the parser hands over
    constDef,           \* context->constDef.id: "NULL", the name stored, or "FREED"
    parameters,         \* context->parameters[0 .. parameterIdx-1]
    emitted,            \* the backend callbacks the entry point called last made
    retVal,             \* value returned by the entry point called last
    call,               \* the entry point called last and the context it was called in
    listing,            \* the statics of the listing writer and the pages written
    opened,             \* the conditionals the input has open, outermost first
    backend             \* the callbacks at which the language backends report an error

condVars == <<condState, processingEnabled, langEnableVec>>
aggVars == <<nodes, currentAggr, aggregateDepth, fillerCount, options>>
regVars == <<module, tables, literals, constDef, parameters>>
obsVars == <<emitted, retVal, call>>
vars == <<condState, processingEnabled, langEnableVec,
          nodes, currentAggr, aggregateDepth, fillerCount, options,
          module, tables, literals, constDef, parameters, emitted, retVal, call,
          listing, opened, backend>>

\* ---------------------------------------------------------------- bounds
\* Deepest nesting of conditional directives explored.
MaxCondDepth == 3

\* Most aggregates declared in a module.
MaxAggregates == 1

\* Deepest nesting of an aggregate and its subaggregates.
MaxDepth == 2

\* Most members, over all the member lists, that declarations add.
MaxMembers == 3

\* Most options pending in the buffer.
MaxOptions == 1

\* Most records that the declarations of a module put into the locals,
\* declares, items and entries tables and, as user constants, into the
\* constants table.
MaxRecords == 2

\* Most lines of a literal block.
MaxLiterals == 2

\* Most parameters of an entry.
MaxParameters == 1

\* Most members declared in the aggregate of a module that also holds other
\* declarations and conditional directives.
MaxModuleMembers == 2

\* Deepest nesting of the conditional directives of such a module.
MaxModuleCondDepth == 2

\* ------------------------------------------------- command line arguments
\* args[ArgSymbols]: the symbols bound on the command line, with their values.
Symbols == {"s0", "s1"}

symbolValue(symbol) == IF symbol = "s0" THEN 0 ELSE 1

\* A symbol name that the command line does not bind.
SymbolNames == Symbols \cup {"su"}

\* args[ArgLanguage].languages: the languages specified on the command line.
Languages == {"cc", "pas"}

\* Language names an IFLANGUAGE list may hold.
LangNames == Languages \cup {"ada"}

\* ------------------------------------------------ conditional state stack
CondStates == {"CondNone", "CondIfLang", "CondIfSymb", "CondElseIf", "CondElse"}

SDL_CUR_COND_STATE(stack) == stack[Len(stack)]

SDL_PUSH_COND_STATE(stack, state) == Append(stack, state)

SDL_POP_COND_STATE(stack) == SubSeq(stack, 1, Len(stack) - 1)

Directives ==
    {"IfSymbol", "IfLanguage", "ElseIfSymbol", "Else", "EndIfSymbol", "EndIfLanguage"}

\* The valid conditional state transitions, as sdl_conditional's header lists
\* them: the state on top of the stack and the directive.
AllowedTransitions ==
    ({"CondNone", "CondIfLang", "CondElse"} \X {"IfSymbol"})
    \cup ({"CondIfSymb"} \X {"ElseIfSymbol"})
    \cup ({"CondIfSymb", "CondElseIf", "CondIfLang"} \X {"Else"})
    \cup ({"CondIfSymb", "CondElseIf", "CondElse"} \X {"EndIfSymbol"})
    \cup (CondStates \X {"IfLanguage"})
    \cup ({"CondIfLang", "CondElse"} \X {"EndIfLanguage"})

\* The state a valid transition leaves on top of the stack, where it leaves one.
ToState(directive) ==
    CASE directive = "IfSymbol" -> "CondIfSymb"
      [] directive = "IfLanguage" -> "CondIfLang"
      [] directive = "ElseIfSymbol" -> "CondElseIf"
      [] OTHER -> "CondElse"

\* What a call is remembered by: the entry point, the conditional state on
\* top and the processing gate when it was called, its argument, and the
\* recursive calls of _sdl_get_tag it made (0 until it says otherwise).
Called(op, arg) ==
    [op |-> op, top |-> SDL_CUR_COND_STATE(condState), depth |-> Len(condState),
     enabled |-> processingEnabled, arg |-> arg, steps |-> 0]

\* The processing gate after a symbol lookup found the symbol.
symbolGate(symbol) == symbolValue(symbol) # 0

\* sdl_conditional, case SDL_K_COND_SYMB
CondIfSymbol(symbol) ==
    /\ Len(condState) < MaxCondDepth
    /\ UNCHANGED <<listing, backend>>
    /\ call' = Called("IfSymbol", symbol)
    /\ IF SDL_CUR_COND_STATE(condState) \in {"CondNone", "CondIfLang", "CondElse"}
       THEN /\ condState' = SDL_PUSH_COND_STATE(condState, "CondIfSymb")
            /\ IF symbol \in Symbols
               THEN /\ processingEnabled' = symbolGate(symbol)
                    /\ retVal' = "SDL_NORMAL"
               ELSE /\ retVal' = "SDL_SYMNOTDEF"
                    /\ UNCHANGED processingEnabled
       ELSE /\ retVal' = "SDL_INVCONDST"
            /\ UNCHANGED <<condState, processingEnabled>>
    /\ UNCHANGED langEnableVec

\* sdl_conditional, case SDL_K_COND_LANG
CondIfLanguage(langs) ==
    /\ Len(condState) < MaxCondDepth
    /\ UNCHANGED <<listing, backend>>
    /\ call' = Called("IfLanguage", langs)
    /\ retVal' = "SDL_NORMAL"
    /\ IF processingEnabled
       THEN /\ condState' = SDL_PUSH_COND_STATE(condState, "CondIfLang")
            /\ langEnableVec' = [l \in Languages |-> l \in langs]
       ELSE UNCHANGED <<condState, langEnableVec>>
    /\ UNCHANGED processingEnabled

\* sdl_conditional, case SDL_K_COND_ELSEIF
CondElseIfSymbol(symbol) ==
    /\ UNCHANGED <<listing, backend>>
    /\ call' = Called("ElseIfSymbol", symbol)
    /\ IF SDL_CUR_COND_STATE(condState) = "CondIfSymb"
       THEN /\ condState' =
                  SDL_PUSH_COND_STATE(SDL_POP_COND_STATE(condState), "CondElseIf")
            /\ processingEnabled' =
                  IF symbol \in Symbols THEN symbolGate(symbol) ELSE processingEnabled
            /\ retVal' = "SDL_NORMAL"
       ELSE /\ retVal' = "SDL_INVCONDST"
            /\ UNCHANGED <<condState, processingEnabled>>
    /\ UNCHANGED langEnableVec

\* sdl_conditional, case SDL_K_COND_ELSE
CondElse ==
    /\ UNCHANGED <<listing, backend>>
    /\ call' = Called("Else", "")
    /\ IF SDL_CUR_COND_STATE(condState) = "CondIfLang" /\ processingEnabled
       THEN /\ condState' =
                  SDL_PUSH_COND_STATE(SDL_POP_COND_STATE(condState), "CondElse")
            /\ langEnableVec' = [l \in Languages |-> ~langEnableVec[l]]
            /\ retVal' = "SDL_NORMAL"
            /\ UNCHANGED processingEnabled
       ELSE IF SDL_CUR_COND_STATE(condState) \in {"CondIfSymb", "CondElseIf"}
       THEN /\ condState' =
                  SDL_PUSH_COND_STATE(SDL_POP_COND_STATE(condState), "CondElse")
            /\ processingEnabled' = ~processingEnabled
            /\ retVal' = "SDL_NORMAL"
            /\ UNCHANGED langEnableVec
       ELSE /\ retVal' = IF processingEnabled THEN "SDL_INVCONDST" ELSE "SDL_NORMAL"
            /\ UNCHANGED condVars

\* sdl_conditional, case SDL_K_COND_END_SYMB
CondEndIfSymbol ==
    /\ UNCHANGED <<listing, backend>>
    /\ call' = Called("EndIfSymbol", "")
    /\ IF SDL_CUR_COND_STATE(condState) \in {"CondIfSymb", "CondElseIf", "CondElse"}
       THEN /\ condState' = SDL_POP_COND_STATE(condState)
            /\ processingEnabled' = TRUE
            /\ retVal' = "SDL_NORMAL"
       ELSE /\ retVal' = "SDL_INVCONDST"
            /\ UNCHANGED <<condState, processingEnabled>>
    /\ UNCHANGED langEnableVec

\* sdl_conditional, case SDL_K_COND_END_LANG
CondEndIfLanguage ==
    /\ UNCHANGED <<listing, backend>>
    /\ call' = Called("EndIfLanguage", "")
    /\ IF ~processingEnabled
       THEN /\ retVal' = "SDL_NORMAL"
            /\ UNCHANGED <<condState, langEnableVec>>
       ELSE IF SDL_CUR_COND_STATE(condState) \in {"CondIfLang", "CondElse"}
       THEN /\ condState' = SDL_POP_COND_STATE(condState)
            /\ langEnableVec' = [l \in Languages |-> TRUE]
            /\ retVal' = "SDL_NORMAL"
       ELSE /\ retVal' = "SDL_INVCONDST"
            /\ UNCHANGED <<condState, langEnableVec>>
    /\ UNCHANGED processingEnabled

\* The six conditional directives of sdl_conditional, naming one of symbols
\* or one of the language lists.
conditional(symbols, lists) ==
    /\ \/ \E symbol \in symbols : CondIfSymbol(symbol)
       \/ \E langs \in lists : CondIfLanguage(langs)
       \/ \E symbol \in symbols : CondElseIfSymbol(symbol)
       \/ CondElse
       \/ CondEndIfSymbol
       \/ CondEndIfLanguage
    /\ emitted' = <<>>
    /\ UNCHANGED <<aggVars, regVars, opened>>

sdl_conditional == conditional(SymbolNames, SUBSET LangNames)

\* ------------------------------------------------------ aggregate members
\* Alignment codes kept in item.alignment and subaggr.alignment; any other
\* value is an explicit alignment in bytes.
SDL_K_NOALIGN == 0

SDL_K_ALIGN == -1

ScalarTypes == {"BYTE", "WORD", "LONG", "QUAD", "OCTA"}

BitfieldTypes == {"BITFLD_B", "BITFLD_W", "BITFLD_L", "BITFLD_Q", "BITFLD_O"}

\* Bytes of the host integer of a bitfield type.
hostSize(type) ==
    CASE type = "BITFLD_B" -> 1
      [] type = "BITFLD_W" -> 2
      [] type = "BITFLD_L" -> 4
      [] type = "BITFLD_Q" -> 8
      [] type = "BITFLD_O" -> 16

sdl_sizeof(type) ==
    CASE type = "BYTE" -> 1
      [] type = "WORD" -> 2
      [] type = "LONG" -> 4
      [] type = "QUAD" -> 8
      [] type = "OCTA" -> 16
      [] type = "CHAR" -> 1
      [] type \in BitfieldTypes -> hostSize(type)
      [] OTHER -> 0

sdl_isComment(member) == member.type = "COMMENT"

sdl_isItem(member) == member.type \notin {"STRUCT", "UNION"}

sdl_isBitfield(member) == member.type \in BitfieldTypes

\* context->dimensions[]: the dimension record a Dimension option selects.
dimensions == <<[lbound |-> 0, hbound |-> 1]>>

\* Names of the synthesised fillers, "filler_%03d" of the filler count.
FillerNames == <<"filler_000", "filler_001", "filler_002", "filler_003",
                 "filler_004", "filler_005", "filler_006", "filler_007">>

\* A member block as sdl_allocate_block returns it: everything zero.
\* For a subaggregate member, sub is the subaggregate it holds.
NewMember ==
    [type |-> "NONE", id |-> "", top |-> FALSE, offset |-> 0, size |-> 0,
     alignment |-> 0, dimension |-> FALSE, lbound |-> 0, hbound |-> 0,
     length |-> 0, bitOffset |-> 0, sizedBitfield |-> FALSE, mask |-> FALSE,
     subType |-> "NONE", sub |-> 0]

\* The last member at or before position i that is no comment, 0 if none:
\* the loops that walk blink over comments.
RECURSIVE prevNonComment(_, _)
prevNonComment(ms, i) ==
    IF i = 0 THEN 0
    ELSE IF sdl_isComment(ms[i]) THEN prevNonComment(ms, i - 1) ELSE i

\* The first member that is no comment, 0 if none.
RECURSIVE firstNonComment(_, _)
firstNonComment(ms, i) ==
    IF i > Len(ms) THEN 0
    ELSE IF sdl_isComment(ms[i]) THEN firstNonComment(ms, i + 1) ELSE i

\* hbound - lbound + 1 of a dimensioned member or subaggregate, 1 otherwise.
dimensionOf(x) == IF x.dimension THEN x.hbound - x.lbound + 1 ELSE 1

\* The real size of an item: its size times its length (characters), with the
\* two bytes of a varying string's length prefix.
realSizeOf(item) ==
    LET length == IF item.type \in {"CHAR", "CHAR_VARY"} /\ item.length # 0
                  THEN item.length ELSE 1
    IN  item.size * length + (IF item.type = "CHAR_VARY" THEN 2 ELSE 0)

availBitsOf(member) == member.size * 8 - member.bitOffset - member.length

\* The offset padded up to a multiple of the alignment.
adjustmentOf(offset, alignment) ==
    IF offset % alignment # 0 THEN alignment - (offset % alignment) ELSE 0

_sdl_fill_bitfield(ms, member, bits, number) ==
    Append(ms, [member EXCEPT !.id = FillerNames[number + 1],
                              !.length = bits,
                              !.mask = FALSE,
                              !.bitOffset = member.bitOffset + 1])

\* The resize cascade of a bitfield that was not specifically sized.
resized(member, length) ==
    LET t1 == IF member.type = "BITFLD_B" /\ length > 8 THEN "BITFLD_W" ELSE member.type
        t2 == IF t1 = "BITFLD_W" /\ length > 16 THEN "BITFLD_L" ELSE t1
        t3 == IF t2 = "BITFLD_L" /\ length > 32 THEN "BITFLD_Q" ELSE t2
        t4 == IF t3 = "BITFLD_L" /\ length > 64 THEN "BITFLD_Q" ELSE t3
    IN  [member EXCEPT !.type = t4, !.size = sdl_sizeof(t4)]

\* A bitfield the walk may resize: not specifically sized.
resizable(member) ==
    sdl_isItem(member) /\ member.type \in BitfieldTypes /\ ~member.sizedBitfield

\* A frame of _sdl_check_bitfieldSizes (member # NULL) past its recursive call,
\* which left r: the member at i is resized to the bits counted, unless a
\* deeper frame was, and then it takes the type of the member p before it.
checkedMember(r, i, p, total) ==
    IF ~r.myUpdated
    THEN [ms |-> [r.ms EXCEPT ![i] = resized(@, total)], myUpdated |-> TRUE]
    ELSE [ms |-> [r.ms EXCEPT ![i].type = r.ms[p].type,
                              ![i].size = r.ms[p].size],
          myUpdated |-> TRUE]

\* _sdl_check_bitfieldSizes called on the member at position i (member # NULL)
\* with the bits counted so far: the member list and myUpdated it leaves.
RECURSIVE checkMember(_, _, _, _)
checkMember(ms, i, length, myUpdated) ==
    LET p == prevNonComment(ms, i - 1)
    IN  IF p # 0 /\ ~resizable(ms[p])
        THEN [ms |-> ms, myUpdated |-> myUpdated]
        ELSE IF p # 0
        THEN checkedMember(checkMember(ms, p, length + ms[p].length, myUpdated),
                           i, p, length + ms[p].length)
        ELSE checkedMember([ms |-> ms, myUpdated |-> myUpdated], i, p, length)

\* The top frame past its recursive call: the new member takes the type of the
\* member p before it.
checkedNewMember(r, p, newMember) ==
    [ms |-> r.ms,
     m |-> [newMember EXCEPT !.type = r.ms[p].type, !.size = r.ms[p].size]]

\* _sdl_check_bitfieldSizes as _sdl_determine_offsets calls it (member = NULL):
\* the member list and the new member it leaves.
_sdl_check_bitfieldSizes(ms, newMember) ==
    LET p == prevNonComment(ms, Len(ms))
    IN  IF p = 0 \/ ~resizable(ms[p])
        THEN [ms |-> ms, m |-> newMember]
        ELSE checkedNewMember(
                 checkMember(ms, p, newMember.length + ms[p].length, FALSE),
                 p, newMember)

\* The resize of a first bitfield, taken when member->item.sizedBitfield is set.
resizedFirst(member) ==
    LET t1 == IF member.type = "BITFLD_B" /\ member.length > 8
              THEN "BITFLD_W" ELSE member.type
        t2 == IF t1 = "BITFLD_W" /\ member.length > 16 THEN "BITFLD_L" ELSE t1
        t3 == IF t2 = "BITFLD_L" /\ member.length > 32 THEN "BITFLD_Q" ELSE t2
    IN  [member EXCEPT !.type = t3, !.size = sdl_sizeof(t3)]

\* The size a subaggregate member counts for when a member follows it.
subaggrSizeOf(member) == nodes[member.sub].size * dimensionOf(nodes[member.sub])

\* The first bitfield of a run: the previous member p is no bitfield, or there
\* is none.
firstBitfield(member, ms, p, parentOffset) ==
    LET offset ==
            IF p # 0 /\ sdl_isItem(ms[p])
            THEN ms[p].offset + realSizeOf(ms[p]) * dimensionOf(ms[p])
            ELSE IF p # 0
            THEN ms[p].offset +
                 (IF ms[p].type # "UNION" THEN subaggrSizeOf(ms[p]) ELSE 0)
            ELSE IF ~member.top THEN parentOffset ELSE 0
        m == [member EXCEPT !.bitOffset = 0, !.offset = offset]
    IN  IF member.sizedBitfield THEN resizedFirst(m) ELSE m

\* A bitfield that follows the bitfield at p, the sizes checked (c): it shares
\* p's host integer when the sizes agree and it fits, and starts a new one
\* (after a filler for the bits left, outside a union) when not.
placedBitfield(c, p, count, parentIsUnion) ==
    LET prevMember == c.ms[p]
        availBits == availBitsOf(prevMember)
        fill == availBits > 0 /\ ~parentIsUnion
    IN  IF c.m.size = prevMember.size /\ c.m.length <= availBits
        THEN [m |-> [c.m EXCEPT !.bitOffset = prevMember.bitOffset + prevMember.length,
                                !.offset = prevMember.offset],
              ms |-> c.ms, fillerCount |-> count]
        ELSE [m |-> [c.m EXCEPT !.bitOffset = 0,
                                !.offset = prevMember.offset + prevMember.size],
              ms |-> IF fill
                     THEN _sdl_fill_bitfield(c.ms, prevMember, availBits, count)
                     ELSE c.ms,
              fillerCount |-> IF fill THEN count + 1 ELSE count]

\* The sizes are checked first, unless the new bitfield was specifically sized.
nextBitfield(member, ms, p, count, parentIsUnion) ==
    placedBitfield(IF member.sizedBitfield THEN [ms |-> ms, m |-> member]
                   ELSE _sdl_check_bitfieldSizes(ms, member),
                   p, count, parentIsUnion)

\* A member that is no bitfield: after a filler for the bits the bitfield at p
\* leaves (outside a union), it follows the previous member.
nonBitfield(member, ms, p, count, parentIsUnion) ==
    LET fill == /\ p # 0
                /\ sdl_isBitfield(ms[p])
                /\ availBitsOf(ms[p]) > 0
                /\ ~parentIsUnion
        realSize ==
            IF p = 0 \/ parentIsUnion THEN 0
            ELSE IF sdl_isItem(ms[p]) THEN realSizeOf(ms[p]) * dimensionOf(ms[p])
            ELSE subaggrSizeOf(ms[p])
    IN  [m |-> [member EXCEPT !.offset = IF p # 0 THEN ms[p].offset + realSize ELSE 0],
         ms |-> IF fill
                THEN _sdl_fill_bitfield(ms, ms[p], availBitsOf(ms[p]), count)
                ELSE ms,
         fillerCount |-> IF fill THEN count + 1 ELSE count]

\* The alignment step: an item moves up to its alignment.
alignedItem(member) ==
    LET adjustment ==
            IF member.alignment = SDL_K_NOALIGN THEN 0
            ELSE IF member.alignment = SDL_K_ALIGN
            THEN adjustmentOf(member.offset, member.size)
            ELSE adjustmentOf(member.offset, member.alignment)
    IN  [member EXCEPT !.offset = member.offset + adjustment]

\* The alignment step applied to a placement.
alignedPlacement(placed) ==
    IF sdl_isItem(placed.m)
    THEN [placed EXCEPT !.m = alignedItem(placed.m)]
    ELSE placed

\* _sdl_determine_offsets: the member placed after the members ms of its
\* parent, the member list (fillers added, bitfields resized) and the filler
\* count it leaves. parentOffset is the offset of the parent subaggregate.
_sdl_determine_offsets(member, ms, count, parentIsUnion, parentOffset) ==
    LET p == prevNonComment(ms, Len(ms))
    IN  IF sdl_isComment(member)
        THEN [m |-> member, ms |-> ms, fillerCount |-> count]
        ELSE alignedPlacement(
                 IF sdl_isBitfield(member)
                 THEN IF p = 0 \/ ~sdl_isBitfield(ms[p])
                      THEN [m |-> firstBitfield(member, ms, p, parentOffset),
                            ms |-> ms, fillerCount |-> count]
                      ELSE nextBitfield(member, ms, p, count, parentIsUnion)
                 ELSE nonBitfield(member, ms, p, count, parentIsUnion))

Max(S) == CHOOSE x \in S : \A y \in S : y <= x

\* Values read through the wrong arm of the member union (item.size of a
\* comment or of a subaggregate member): whatever the block holds there.
OverlaySizes == {0, 8}

\* memberExtent without the dimension: an array member counted as one element.
elementExtent(member) ==
    IF sdl_isComment(member) THEN 0
    ELSE IF sdl_isItem(member) THEN realSizeOf(member)
    ELSE nodes[member.sub].size

\* The size a member counts for in the size of its union.
memberExtent(member) ==
    IF sdl_isComment(member) THEN 0
    ELSE IF sdl_isItem(member) THEN realSizeOf(member) * dimensionOf(member)
    ELSE subaggrSizeOf(member)

\* The size a closing subaggregate n aligns its own offset to.
alignSizeOf(n, overlay) ==
    LET ms == nodes[n].members
        f == firstNonComment(ms, 1)
    IN  IF nodes[n].aggType = "UNION"
        THEN Max({sdl_sizeof(nodes[n].type)} \cup
                 {IF sdl_isItem(ms[i]) THEN ms[i].size ELSE nodes[ms[i].sub].size :
                      i \in {j \in 1..Len(ms) : ~sdl_isComment(ms[j])}})
        ELSE IF f = 0 THEN sdl_sizeof(nodes[n].type)
        ELSE IF sdl_isItem(ms[f]) THEN ms[f].size
        ELSE overlay

\* The modulus the closing subaggregate n pads its offset to, 1 for none.
alignModulus(n, overlay) ==
    IF nodes[n].parent = 0 \/ nodes[n].members = <<>> THEN 1
    ELSE IF nodes[n].alignment = SDL_K_NOALIGN THEN 1
    ELSE IF nodes[n].alignment = SDL_K_ALIGN THEN alignSizeOf(n, overlay)
    ELSE nodes[n].alignment

\* The filler item that brings an implicit union up to its scalar type.
unionFiller(n, count) ==
    [NewMember EXCEPT !.type = nodes[n].type,
                      !.size = sdl_sizeof(nodes[n].type),
                      !.alignment = nodes[n].alignment,
                      !.id = FillerNames[count + 1]]

\* An implicit union brought up to its scalar type by the filler placed.
filledUnion(placed, unionSize, offset) ==
    [size |-> unionSize, offset |-> offset,
     ms |-> Append(placed.ms, placed.m), fillerCount |-> placed.fillerCount]

\* _sdl_aggregate_size of the aggregate or subaggregate n: its size, its own
\* offset, and the member list and filler count it leaves. The modulus is not
\* zero.
_sdl_aggregate_size(n, overlay) ==
    LET ms == nodes[n].members
        isUnion == nodes[n].aggType = "UNION"
        offset == nodes[n].offset + adjustmentOf(nodes[n].offset, alignModulus(n, overlay))
        last == ms[Len(ms)]
        fill == /\ ms # <<>>
                /\ sdl_isBitfield(last)
                /\ ~isUnion
                /\ availBitsOf(last) > 0
        ms1 == IF fill
               THEN _sdl_fill_bitfield(ms, last, availBitsOf(last), fillerCount)
               ELSE ms
        count1 == IF fill THEN fillerCount + 1 ELSE fillerCount
        largest == Max({0} \cup {memberExtent(ms1[i]) : i \in 1..Len(ms1)})
        unionSize == sdl_sizeof(nodes[n].type)
    IN  IF ms = <<>>
        THEN [size |-> 0, offset |-> offset, ms |-> ms, fillerCount |-> fillerCount]
        ELSE IF isUnion /\ largest < unionSize
        THEN filledUnion(_sdl_determine_offsets(unionFiller(n, count1), ms1,
                                                count1 + 1, TRUE, offset),
                         unionSize, offset)
        ELSE IF isUnion
        THEN [size |-> largest, offset |-> offset, ms |-> ms1, fillerCount |-> count1]
        ELSE [size |-> IF sdl_isComment(last) THEN last.offset + overlay
                       ELSE IF sdl_isItem(last)
                       THEN last.offset + realSizeOf(last) * dimensionOf(last)
                       ELSE last.offset + subaggrSizeOf(last),
              offset |-> offset, ms |-> ms1, fillerCount |-> count1]

\* ------------------------------------------------------- aggregate options
\* An entry of the options buffer.
Option(option, value) == [option |-> option, value |-> value, subType |-> "NONE"]

SubTypeOption(subType) == [option |-> "SubType", value |-> 0, subType |-> subType]

\* A Tag option: the string is kept as the parser hands it over.
TagOption(string) ==
    [option |-> "Tag", value |-> 0, subType |-> "NONE", string |-> string]

\* The alignment an Align, NoAlign or BaseAlign option asks for.
alignmentOf(o) ==
    CASE o.option = "Align" -> SDL_K_ALIGN
      [] o.option = "NoAlign" -> SDL_K_NOALIGN
      [] o.option = "BaseAlign" -> o.value

\* One pass of the options loop of sdl_aggregate_member. acc holds the member
\* list and the (sub)aggregate the options may change, the locals length, mask,
\* subType and bitfieldSized, and whether a NULL myAggr was written through.
applyOption(o, acc, deep) ==
    LET k == Len(acc.ms)
        myMember == k > 0 /\ sdl_isItem(acc.ms[k])
    IN  CASE o.option \in {"Align", "NoAlign", "BaseAlign"} ->
                IF myMember /\ acc.ms[k].alignment # alignmentOf(o)
                THEN [acc EXCEPT !.ms[k].alignment = alignmentOf(o)]
                ELSE IF deep /\ acc.node.alignment # alignmentOf(o)
                THEN [acc EXCEPT !.node.alignment = alignmentOf(o)]
                ELSE IF deep
                THEN [acc EXCEPT !.fault = TRUE]
                ELSE [acc EXCEPT !.node.alignment = alignmentOf(o)]
          [] o.option = "Dimension" ->
                IF myMember
                THEN [acc EXCEPT !.ms[k].lbound = dimensions[o.value].lbound,
                                 !.ms[k].hbound = dimensions[o.value].hbound,
                                 !.ms[k].dimension = TRUE]
                ELSE [acc EXCEPT !.node.lbound = dimensions[o.value].lbound,
                                 !.node.hbound = dimensions[o.value].hbound,
                                 !.node.dimension = TRUE]
          [] o.option = "Tag" ->
                IF myMember THEN acc ELSE [acc EXCEPT !.node.tag = o.string]
          [] o.option = "Mask" -> [acc EXCEPT !.mask = TRUE]
          [] o.option = "Length" -> [acc EXCEPT !.length = o.value]
          [] o.option = "SubType" ->
                [acc EXCEPT !.subType = o.subType, !.bitfieldSized = TRUE]
          [] OTHER -> acc

\* The options loop, from entry i on; it stops where the process does.
RECURSIVE applyOptions(_, _, _, _)
applyOptions(opts, i, acc, deep) ==
    IF i > Len(opts) \/ acc.fault THEN acc
    ELSE applyOptions(opts, i + 1, applyOption(opts[i], acc, deep), deep)

\* The bitfield type of a host integer type.
bitfieldOf(subType) ==
    CASE subType = "BYTE" -> "BITFLD_B"
      [] subType = "WORD" -> "BITFLD_W"
      [] subType = "LONG" -> "BITFLD_L"
      [] subType = "QUAD" -> "BITFLD_Q"
      [] subType = "OCTA" -> "BITFLD_O"

\* The member sdl_aggregate_member builds in the (sub)aggregate node, once the
\* options loop has left acc.
builtMember(name, datatype, aggType, acc, deep) ==
    LET type == IF aggType \in {"STRUCT", "UNION"}
                THEN IF datatype \in ScalarTypes THEN "UNION" ELSE aggType
                ELSE IF datatype = "BITFLD" THEN bitfieldOf(acc.subType)
                ELSE datatype
        base == [NewMember EXCEPT !.type = type, !.id = name, !.top = ~deep]
    IN  IF aggType \in {"STRUCT", "UNION"} THEN base
        ELSE IF datatype = "COMMENT" THEN base
        ELSE [base EXCEPT
                 !.length = IF datatype = "BITFLD"
                            THEN (IF acc.length = 0 THEN 1 ELSE acc.length)
                            ELSE IF datatype \in {"CHAR", "CHAR_VARY"}
                            THEN acc.length ELSE 0,
                 !.mask = datatype = "BITFLD" /\ acc.mask,
                 !.sizedBitfield = datatype = "BITFLD" /\ acc.bitfieldSized,
                 !.subType = IF datatype = "BITFLD" THEN acc.subType ELSE "NONE",
                 !.size = sdl_sizeof(type) +
                          (IF type = "CHAR_VARY" THEN acc.length ELSE 0),
                 !.alignment = acc.node.alignment]

\* The subaggregate a subaggregate member opens.
NewNode(name, datatype, aggType, alignment, parent, self) ==
    [id |-> name, aggType |-> aggType, type |-> datatype, alignment |-> alignment,
     dimension |-> FALSE, lbound |-> 0, hbound |-> 0, offset |-> 0, size |-> 0,
     parent |-> parent, self |-> self, members |-> <<>>, closed |-> FALSE,
     typeID |-> 0, tag |-> "NULL"]

\* ------------------------------------------------------------ type registry
\* _defaultTag, indexed by the type code plus one.
_defaultTag ==
    <<"K", "B", "IB", "W", "IW", "L", "IL", "IS", "IH", "HI", "Q", "IQ", "O",
      "T", "TC", "S", "SC", "X", "XC", "F", "FC", "D", "DC", "G", "GC", "H", "HC",
      "P", "V", "VB", "VW", "VL", "VQ", "VO", "C", "CV", "CS", "A", "AL", "AQ",
      "AH", "HA", "PS", "PL", "PQ", "PH", "", "Z", "B", "R", "R", "N", "E">>

\* Type codes of base types: the place of the type in _defaultTag.
SDL_K_TYPE_CONST == 0

SDL_K_TYPE_LONG == 5

SDL_K_TYPE_ANY == 46

SDL_K_TYPE_STRUCT == 49

SDL_K_TYPE_UNION == 50

SDL_K_BASE_TYPE_MIN == 1

SDL_K_BASE_TYPE_MAX == Len(_defaultTag) - 1

\* Type IDs each namespace has, scaled down.
NamespaceIds == 2

\* The ranges of the type IDs of declares, items, aggregates and enumerations.
SDL_K_DECLARE_MIN == 64

SDL_K_DECLARE_MAX == SDL_K_DECLARE_MIN + NamespaceIds - 1

SDL_K_ITEM_MIN == SDL_K_DECLARE_MAX + 1

SDL_K_ITEM_MAX == SDL_K_ITEM_MIN + NamespaceIds - 1

SDL_K_AGGREGATE_MIN == SDL_K_ITEM_MAX + 1

SDL_K_AGGREGATE_MAX == SDL_K_AGGREGATE_MIN + NamespaceIds - 1

\* The name the layout knows a base type code by.
typeName(datatype) ==
    CASE datatype = 1 -> "BYTE"
      [] datatype = 3 -> "WORD"
      [] datatype = SDL_K_TYPE_LONG -> "LONG"
      [] datatype = 10 -> "QUAD"
      [] datatype = 12 -> "OCTA"
      [] datatype = SDL_K_TYPE_STRUCT -> "STRUCT"
      [] datatype = SDL_K_TYPE_UNION -> "UNION"
      [] OTHER -> "NONE"

\* sdl_get_declare, sdl_get_item, sdl_get_aggregate: the entities of the
\* table for datatype's range that carry the type ID, first queued first.
entitiesOf(datatype) ==
    LET table == IF datatype \in SDL_K_DECLARE_MIN..SDL_K_DECLARE_MAX
                 THEN tables.declares
                 ELSE IF datatype \in SDL_K_ITEM_MIN..SDL_K_ITEM_MAX
                 THEN tables.items
                 ELSE IF datatype \in SDL_K_AGGREGATE_MIN..SDL_K_AGGREGATE_MAX
                 THEN SelectSeq(nodes, LAMBDA n : n.parent = 0)
                 ELSE <<>>
    IN  SelectSeq(table, LAMBDA e : e.typeID = datatype)

\* sdl_sizeof of a type code: a base type's size, a user type's recorded size.
sdl_sizeof_type(datatype) ==
    IF datatype \in SDL_K_BASE_TYPE_MIN..SDL_K_BASE_TYPE_MAX
    THEN sdl_sizeof(typeName(datatype))
    ELSE IF entitiesOf(datatype) # <<>> THEN entitiesOf(datatype)[1].size
    ELSE 0

\* sdl_all_lower: no letter of the name is upper case. Names are told apart
\* by their first letter.
sdl_all_lower(str) == str \notin {"A", "D", "I"}

\* tolower over the tags that are resolved.
tolower(tag) ==
    CASE tag = "L" -> "l"
      [] tag = "R" -> "r"
      [] tag = "T" -> "t"
      [] OTHER -> tag

\* The explicit tag with its trailing underscores cut, the first character
\* kept. The empty tag is no argument: the loop would start at index
\* SIZE_MAX.
trimmedTag(tag) ==
    CASE tag = "T_" -> "T"
      [] tag = "T__" -> "T"
      [] tag = "__" -> "_"
      [] OTHER -> tag

\* Frames of _sdl_get_tag the stack holds.
MaxTagDepth == 3

\* A value _sdl_get_tag returns: the tag, the recursive calls made, and
\* whether the process faulted (strlen of a NULL tag, or the stack used up).
Resolved(tag, steps, fault) == [tag |-> tag, steps |-> steps, fault |-> fault]

\* _sdl_get_tag, entered at recursion depth depth. The recursion is on the
\* entity's own type ID, myDeclare->typeID, as written.
RECURSIVE _sdl_get_tag(_, _, _, _)
_sdl_get_tag(tag, datatype, lower, depth) ==
    LET es == entitiesOf(datatype)
        userType == datatype \in SDL_K_DECLARE_MIN..SDL_K_AGGREGATE_MAX
    IN  IF depth > MaxTagDepth THEN Resolved("NULL", depth, TRUE)
        ELSE IF tag # "NULL" THEN Resolved(trimmedTag(tag), depth, FALSE)
        ELSE IF datatype = SDL_K_TYPE_CONST
        THEN Resolved(IF lower THEN tolower(_defaultTag[SDL_K_TYPE_CONST + 1])
                      ELSE _defaultTag[SDL_K_TYPE_CONST + 1], depth, FALSE)
        ELSE IF datatype \in SDL_K_BASE_TYPE_MIN..SDL_K_BASE_TYPE_MAX
        THEN Resolved(IF lower THEN tolower(_defaultTag[datatype + 1])
                      ELSE _defaultTag[datatype + 1], depth, FALSE)
        ELSE IF ~userType THEN Resolved("NULL", depth, lower)
        ELSE IF es = <<>> THEN Resolved(_defaultTag[SDL_K_TYPE_ANY + 1], depth, FALSE)
        ELSE IF es[1].tag = "NULL" THEN Resolved("NULL", depth, TRUE)
        ELSE IF es[1].tag # ""
        THEN Resolved(IF lower THEN tolower(es[1].tag) ELSE es[1].tag, depth, FALSE)
        ELSE _sdl_get_tag(tag, es[1].typeID, lower, depth + 1)

\* ------------------------------------------------ aggregate entry points
\* The process has not faulted.
Alive == retVal \notin {"SIGSEGV", "SIGFPE", "SIGABRT"}

\* Members of every member list, fillers and comments included.
RECURSIVE membersIn(_, _)
membersIn(ns, i) ==
    IF i > Len(ns) THEN 0 ELSE Len(ns[i].members) + membersIn(ns, i + 1)

\* context->aggregates.header.blink: the aggregate queued last.
lastAggregate == Max({i \in 1..Len(nodes) : nodes[i].parent = 0})

\* sdl_aggregate
sdl_aggregate(name, datatype, aggType) ==
    /\ Alive
    /\ aggregateDepth = 0
    /\ Cardinality({i \in 1..Len(nodes) : nodes[i].parent = 0}) < MaxAggregates
    /\ UNCHANGED <<listing, opened, backend>>
    /\ call' = Called("aggregate", name)
    /\ retVal' = "SDL_NORMAL"
    /\ IF processingEnabled
       THEN /\ nodes' = Append(nodes,
                   [NewNode(name, datatype,
                            IF datatype \in ScalarTypes THEN "UNION" ELSE aggType,
                            0, 0, 0)
                       EXCEPT !.typeID = tables.nextID.aggregates,
                              !.tag = _sdl_get_tag("NULL",
                                                   IF aggType = "UNION"
                                                   THEN SDL_K_TYPE_UNION
                                                   ELSE SDL_K_TYPE_STRUCT,
                                                   sdl_all_lower(name), 0).tag])
            /\ tables' = [tables EXCEPT !.nextID.aggregates = @ + 1]
            /\ currentAggr' = Len(nodes) + 1
            /\ aggregateDepth' = aggregateDepth + 1
       ELSE UNCHANGED <<nodes, tables, currentAggr, aggregateDepth>>
    /\ emitted' = <<>>
    /\ UNCHANGED <<condVars, module, literals, constDef, parameters, fillerCount,
                   options>>

\* The options buffer that leaves no option behind.
optionsLeft == options

\* _sdl_reset_options: the options buffer with optionsIdx set to 0.
_sdl_reset_options == <<>>

\* sdl_add_option, for the options that follow an aggregate, a subaggregate or
\* a member declaration.
optionAdded(o, most) ==
    /\ Alive
    /\ Len(options) < most
    /\ UNCHANGED <<listing, opened, backend>>
    /\ call' = Called("add_option", o.option)
    /\ retVal' = "SDL_NORMAL"
    /\ options' = IF processingEnabled THEN Append(options, o) ELSE options
    /\ emitted' = <<>>
    /\ UNCHANGED <<condVars, regVars, nodes, currentAggr, aggregateDepth, fillerCount>>

\* sdl_add_option where the parser calls it for an aggregate, a member, a
\* DECLARE or an ITEM.
sdl_add_option(o) ==
    /\ \/ currentAggr # 0 /\ call.op \in {"aggregate", "aggregate_member", "add_option"}
       \/ call.op \in {"declare", "item"}
    /\ optionAdded(o, MaxOptions)

\* sdl_aggregate_member past the options loop, which left acc, with the member
\* built and placed (d).
memberPlaced(op, name, datatype, aggType, acc, built, d) ==
    LET n == currentAggr
        isSub == aggType \in {"STRUCT", "UNION"}
        new == Len(nodes) + 1
        member == IF isSub THEN [d.m EXCEPT !.sub = new] ELSE d.m
        list == Append(d.ms, member)
    IN  /\ Alive
        /\ currentAggr # 0 \/ ~processingEnabled
        /\ UNCHANGED <<listing, opened, backend>>
        /\ call' = Called(op, datatype)
        /\ IF ~processingEnabled
           THEN /\ retVal' = "SDL_NORMAL"
                /\ UNCHANGED <<nodes, currentAggr, aggregateDepth, fillerCount>>
           ELSE IF acc.fault
           THEN /\ retVal' = "SIGSEGV"
                /\ UNCHANGED <<nodes, currentAggr, aggregateDepth, fillerCount>>
           ELSE IF name = "NULL"
           THEN /\ retVal' = "SDL_INVAGGRNAM"
                /\ nodes' = [nodes EXCEPT ![n] = [acc.node EXCEPT !.members = acc.ms]]
                /\ UNCHANGED <<currentAggr, aggregateDepth, fillerCount>>
           ELSE /\ retVal' = IF datatype = "BITFLD" /\ built.length < 0
                             THEN "SDL_ZEROLEN" ELSE "SDL_NORMAL"
                /\ nodes' =
                      IF isSub
                      THEN Append([nodes EXCEPT ![n] = [acc.node EXCEPT !.members = list]],
                                  [NewNode(name, datatype, built.type,
                                           acc.node.alignment, n, Len(list))
                                      EXCEPT !.offset = member.offset])
                      ELSE [nodes EXCEPT ![n] = [acc.node EXCEPT !.members = list]]
                /\ currentAggr' = IF isSub THEN new ELSE n
                /\ aggregateDepth' = IF isSub THEN aggregateDepth + 1 ELSE aggregateDepth
                /\ fillerCount' = d.fillerCount
        /\ options' = _sdl_reset_options
        /\ emitted' = <<>>
        /\ UNCHANGED <<condVars, regVars>>

\* The member is built from what the options loop left and placed after the
\* members of the current (sub)aggregate.
memberBuilt(op, name, datatype, aggType, acc, built) ==
    memberPlaced(op, name, datatype, aggType, acc, built,
                 _sdl_determine_offsets(built, acc.ms, fillerCount,
                                        acc.node.aggType = "UNION", acc.node.offset))

memberOptioned(op, name, datatype, aggType, acc) ==
    memberBuilt(op, name, datatype, aggType, acc,
                builtMember(name, datatype, aggType, acc, aggregateDepth > 1))

\* sdl_aggregate_member, with the options quals that the member's own type
\* put into the buffer (Length, Mask, SubType) behind those pending.
aggregate_member(op, name, datatype, aggType, quals) ==
    memberOptioned(op, name, datatype, aggType,
        IF currentAggr = 0 THEN [fault |-> FALSE]
        ELSE applyOptions(options \o quals, 1,
                 [ms |-> nodes[currentAggr].members, node |-> nodes[currentAggr],
                  length |-> 0, mask |-> FALSE, subType |-> "BYTE",
                  bitfieldSized |-> FALSE, fault |-> FALSE],
                 aggregateDepth > 1))

\* A backend callback: sdl_call_<callback> for the object id, at its start or
\* at its end.
Callback(callback, id, ending) == [callback |-> callback, id |-> id, ending |-> ending]

\* What the backends return from sdl_call_<callback>.
statusOf(callback) == IF callback \in backend THEN "SDL_ABORT" ELSE "SDL_NORMAL"

\* A record of the constants table, as _sdl_create_constant fills it.
Constant(id, tag, value) == [id |-> id, tag |-> tag, value |-> value]

\* _sdl_queue_constant's backend call for each constant of a list.
queuedConstants(cs) == [i \in 1..Len(cs) |-> Callback("constant", cs[i].id, FALSE)]

\* Bits of the uint64_t a mask is computed in.
MaskBits == 64

\* The mask of a bitfield, as the set of the bits set in it: length bits from
\* the bit offset up, those that the shift leaves inside the uint64_t. A
\* length or a shift count of 64 or more is undefined and is not asked for.
maskOf(member) ==
    CASE member.length < MaskBits /\ member.bitOffset < MaskBits ->
            (member.bitOffset..(member.bitOffset + member.length - 1))
                \cap (0..(MaskBits - 1))

\* _sdl_create_bitfield_constants: for every bitfield of the member list,
\* from member i on, a size constant holding its length and, for a MASK
\* bitfield, a mask constant. The names used here are all lower case, which
\* makes the tags "s" and "m".
RECURSIVE _sdl_create_bitfield_constants(_, _)
_sdl_create_bitfield_constants(ms, i) ==
    IF i > Len(ms) THEN <<>>
    ELSE (IF ~sdl_isBitfield(ms[i]) THEN <<>>
          ELSE IF ms[i].mask
          THEN <<Constant(ms[i].id, "s", ms[i].length),
                 Constant(ms[i].id, "m", maskOf(ms[i]))>>
          ELSE <<Constant(ms[i].id, "s", ms[i].length)>>)
         \o _sdl_create_bitfield_constants(ms, i + 1)

\* The constants _sdl_aggregate_size queues for the (sub)aggregate id it left
\* r for: those of its bitfields, when it has members, then its own size.
sizeConstants(id, r) ==
    (IF r.ms = <<>> THEN <<>> ELSE _sdl_create_bitfield_constants(r.ms, 1))
    \o <<Constant(id, "s", r.size)>>

\* _sdl_iterate_members with _sdl_aggregate_callback: the callbacks for the
\* members of (sub)aggregate n from member i on, a subaggregate's own members
\* between its start and its end.
RECURSIVE _sdl_iterate_members(_, _, _)
_sdl_iterate_members(ns, n, i) ==
    IF i > Len(ns[n].members) THEN <<>>
    ELSE (IF ~sdl_isItem(ns[n].members[i])
          THEN <<Callback("subaggregate", ns[n].members[i].id, FALSE)>>
               \o _sdl_iterate_members(ns, ns[n].members[i].sub, 1)
               \o <<Callback("subaggregate", ns[n].members[i].id, TRUE)>>
          ELSE IF sdl_isComment(ns[n].members[i])
          THEN <<Callback("comment", ns[n].members[i].id, FALSE)>>
          ELSE <<Callback("item", ns[n].members[i].id, FALSE)>>)
         \o _sdl_iterate_members(ns, n, i + 1)

\* The backend calls that hand a closed aggregate n over: its start, then,
\* where that returned SDL_NORMAL, its members and its end. What the
\* callbacks of the members return is not looked at.
aggregateCalls(ns, n) ==
    <<Callback("aggregate", ns[n].id, FALSE)>>
    \o (IF statusOf("aggregate") = "SDL_NORMAL"
        THEN _sdl_iterate_members(ns, n, 1)
             \o <<Callback("aggregate", ns[n].id, TRUE)>>
        ELSE <<>>)

\* sdl_aggregate_compl at its end: the (sub)aggregate n closed leaves the
\* nodes after, its constants sized are queued (what the backends return for
\* them is dropped), and the return value is status or, for an aggregate
\* handed over, what the backends returned for it.
aggregateClosed(name, n, r, after, sized, status) ==
    /\ nodes' = after
    /\ currentAggr' = IF aggregateDepth = 1 THEN 0 ELSE nodes[n].parent
    /\ aggregateDepth' = aggregateDepth - 1
    /\ fillerCount' = r.fillerCount
    /\ tables' = [tables EXCEPT !.constants = @ \o sized]
    /\ emitted' = queuedConstants(sized) \o
                  (IF aggregateDepth = 1 /\ status = "SDL_NORMAL"
                   THEN aggregateCalls(after, n) ELSE <<>>)
    /\ retVal' = IF aggregateDepth = 1 /\ status = "SDL_NORMAL"
                 THEN statusOf("aggregate") ELSE status

\* closingStatus without the test for an empty member list.
closingNamed(name, id, ms) ==
    IF name # "NULL" /\ name # id THEN "SDL_MATCHEND" ELSE "SDL_NORMAL"

\* What sdl_aggregate_compl makes of the END of the (sub)aggregate id, whose
\* member list _sdl_aggregate_size left as ms: the name on the END is looked
\* at first, the empty member list after it.
closingStatus(name, id, ms) ==
    IF name # "NULL" /\ name # id THEN "SDL_MATCHEND"
    ELSE IF ms = <<>> THEN "SDL_NULLSTRUCT"
    ELSE "SDL_NORMAL"

\* sdl_aggregate_compl past _sdl_aggregate_size, which left r for the
\* (sub)aggregate n.
aggregateSized(name, overlay, n, r) ==
    LET parent == nodes[n].parent
        closed == [nodes[n] EXCEPT !.size = r.size, !.offset = r.offset,
                                   !.members = r.ms, !.closed = TRUE]
    IN  /\ Alive
        /\ currentAggr # 0 \/ ~processingEnabled
        /\ UNCHANGED <<listing, opened, backend>>
        /\ call' = Called("aggregate_compl", name)
        /\ IF ~processingEnabled
           THEN /\ retVal' = "SDL_NORMAL"
                /\ emitted' = <<>>
                /\ UNCHANGED <<nodes, currentAggr, aggregateDepth, fillerCount, tables>>
           ELSE IF alignModulus(n, overlay) = 0
           THEN /\ retVal' = "SIGFPE"
                /\ emitted' = <<>>
                /\ UNCHANGED <<nodes, currentAggr, aggregateDepth, fillerCount, tables>>
           ELSE aggregateClosed(name, n, r,
                    IF parent = 0
                    THEN [nodes EXCEPT ![n] = closed]
                    ELSE [nodes EXCEPT ![n] = closed,
                                       ![parent].members[nodes[n].self].offset = r.offset],
                    sizeConstants(nodes[n].id, r),
                    closingStatus(name, nodes[n].id, r.ms))
        /\ options' = _sdl_reset_options
        /\ UNCHANGED <<condVars, module, literals, constDef, parameters>>

aggregateClosing(name, overlay, n) ==
    aggregateSized(name, overlay, n, _sdl_aggregate_size(n, overlay))

\* sdl_aggregate_compl. Options still pending go to the last member only when
\* it is no item, so those of an item are dropped.
sdl_aggregate_compl(name, overlay) ==
    aggregateClosing(name, overlay,
                     IF aggregateDepth = 1 THEN lastAggregate ELSE currentAggr)

\* sdl_comment_line, with comments asked for on the command line: inside an
\* aggregate the comment becomes a member, elsewhere it goes to the backends.
sdl_comment_line(comment) ==
    IF currentAggr # 0
    THEN aggregate_member("comment_line", comment, "COMMENT", "NONE", <<>>)
    ELSE /\ Alive
         /\ UNCHANGED <<listing, opened, backend>>
         /\ call' = Called("comment_line", "COMMENT")
         /\ retVal' = IF processingEnabled THEN statusOf("comment") ELSE "SDL_NORMAL"
         /\ emitted' = IF processingEnabled
                       THEN <<Callback("comment", comment, FALSE)>> ELSE <<>>
         /\ UNCHANGED <<condVars, aggVars, regVars>>

\* The member declarations the layout is explored with: scalar items, bitfields
\* left to the default host or sized by a host type, and subaggregates
\* (structure, union, and the implicit union over a scalar).
ItemTypes == {"BYTE", "LONG"}

BitLengths == {3, 6, 12}

MemberDecls ==
    {[datatype |-> t, aggType |-> "NONE", quals |-> <<>>] : t \in ItemTypes}
    \cup {[datatype |-> "BITFLD", aggType |-> "NONE",
           quals |-> <<Option("Length", l)>>] : l \in BitLengths}
    \cup {[datatype |-> "BITFLD", aggType |-> "NONE",
           quals |-> <<SubTypeOption("WORD"), Option("Length", 3)>>]}
    \cup {[datatype |-> "BITFLD", aggType |-> "NONE",
           quals |-> <<SubTypeOption("BYTE"), Option("Length", 12)>>]}
    \cup {[datatype |-> "NONE", aggType |-> a, quals |-> <<>>] :
              a \in {"STRUCT", "UNION"}}
    \cup {[datatype |-> "LONG", aggType |-> "STRUCT", quals |-> <<>>]}

\* The options that may follow a declaration.
TrailingOptions ==
    {Option("Align", 0), Option("BaseAlign", 4), Option("Dimension", 1)}

\* sdl_aggregate_member for one of the declarations decls, while fewer than
\* most members are declared.
aggregate_members(decls, most) ==
    \E d \in decls :
        /\ membersIn(nodes, 1) < most
        /\ d.aggType \in {"STRUCT", "UNION"} => aggregateDepth < MaxDepth
        /\ aggregate_member("aggregate_member", "m", d.datatype, d.aggType, d.quals)

sdl_aggregate_member == aggregate_members(MemberDecls, MaxMembers)

\* ---------------------------------------------------- module entry points
\* The tables of a module that holds nothing.
EmptyTables ==
    [locals |-> <<>>, constants |-> <<>>, declares |-> <<>>, items |-> <<>>,
     entries |-> <<>>, enums |-> <<>>,
     nextID |-> [declares |-> SDL_K_DECLARE_MIN, items |-> SDL_K_ITEM_MIN,
                 aggregates |-> SDL_K_AGGREGATE_MIN]]

\* The names registered in a table.
idsIn(table) == {table[i].id : i \in 1..Len(table)}

\* Records registered by the declarations of the module: all but the
\* constants that closing an aggregate queues.
records ==
    Len(tables.locals) + Len(tables.declares) + Len(tables.items)
    + Len(tables.entries)
    + Cardinality({i \in 1..Len(tables.constants) : tables.constants[i].tag = "k"})

\* sdl_module. The processing gate is not looked at; what the backends
\* return is returned.
sdl_module(moduleName) ==
    /\ Alive
    /\ module = "NULL"
    /\ UNCHANGED <<listing, opened, backend>>
    /\ call' = Called("module", moduleName)
    /\ module' = moduleName
    /\ emitted' = <<Callback("module", moduleName, FALSE)>>
    /\ retVal' = statusOf("module")
    /\ UNCHANGED <<condVars, aggVars, tables, literals, constDef, parameters>>

\* The tables had the module's end, which returns status, emptied them only
\* where it returns SDL_NORMAL.
keptTables(status) ==
    IF status = "SDL_NORMAL" THEN [EmptyTables EXCEPT !.nextID = tables.nextID]
    ELSE tables

\* The tables as the module's end, which returns status, leaves them: every
\* queue is emptied whatever the status; the ID counters are not touched.
releasedTables(status) == [EmptyTables EXCEPT !.nextID = tables.nextID]

\* strcmp(context->module, moduleName): with a module open the names are
\* compared; with none open the read through the NULL module name is
\* undefined and faults or returns either result.
strcmpOutcomes(moduleName) ==
    IF module = "NULL" THEN {"fault", "differ", "equal"}
    ELSE IF moduleName = module THEN {"equal"}
    ELSE {"differ"}

\* sdl_module_end. Neither the processing gate nor whether a module is open
\* is looked at; whatever the return value, every table is emptied and the
\* module name cleared. The aggregate cursor and depth are left alone.
sdl_module_end(moduleName) ==
    \E outcome \in IF moduleName = "NULL" THEN {"equal"} ELSE strcmpOutcomes(moduleName) :
        LET status == IF outcome = "differ" THEN "SDL_MATCHEND" ELSE statusOf("module")
        IN  /\ Alive
            /\ UNCHANGED <<listing, opened, backend>>
            /\ call' = Called("module_end", moduleName)
            /\ IF outcome = "fault"
               THEN /\ retVal' = "SIGSEGV"
                    /\ emitted' = <<>>
                    /\ UNCHANGED <<tables, nodes, module>>
               ELSE /\ retVal' = status
                    /\ emitted' = IF outcome = "differ" THEN <<>>
                                  ELSE <<Callback("module", module, TRUE)>>
                    /\ tables' = releasedTables(status)
                    /\ nodes' = <<>>
                    /\ module' = "NULL"
            /\ UNCHANGED <<condVars, currentAggr, aggregateDepth, fillerCount, options,
                           literals, constDef, parameters>>

\* sdl_set_local
sdl_set_local(name, value) ==
    /\ Alive
    /\ UNCHANGED <<listing, opened, backend>>
    /\ call' = Called("set_local", name)
    /\ IF ~processingEnabled
       THEN /\ retVal' = "SDL_NORMAL"
            /\ UNCHANGED tables
       ELSE IF name \in idsIn(tables.locals)
       THEN /\ retVal' = "SDL_NOTCREATED"
            /\ tables' = [tables EXCEPT !.locals =
                              [i \in 1..Len(@) |->
                                  IF @[i].id = name THEN [@[i] EXCEPT !.value = value]
                                  ELSE @[i]]]
       ELSE /\ retVal' = "SDL_CREATED"
            /\ tables' = [tables EXCEPT !.locals =
                              Append(@, [id |-> name, value |-> value])]
    /\ emitted' = <<>>
    /\ UNCHANGED <<condVars, aggVars, module, literals, constDef, parameters>>

\* sdl_literal: a line of a literal block, not empty.
sdl_literal(line) ==
    /\ Alive
    /\ Len(literals) < MaxLiterals
    /\ UNCHANGED <<listing, opened, backend>>
    /\ call' = Called("literal", line)
    /\ retVal' = "SDL_NORMAL"
    /\ literals' = IF processingEnabled THEN Append(literals, line) ELSE literals
    /\ emitted' = <<>>
    /\ UNCHANGED <<condVars, aggVars, module, tables, constDef, parameters>>

\* sdl_literal_end. The loop takes lines off the queue and hands them to the
\* backends while the queue is not empty and the backends return SDL_NORMAL.
sdl_literal_end ==
    LET released == IF literals = <<>> THEN 0
                    ELSE IF statusOf("literal") = "SDL_NORMAL" THEN Len(literals)
                    ELSE 1
    IN  /\ Alive
        /\ UNCHANGED <<listing, opened, backend>>
        /\ call' = Called("literal_end", "")
        /\ IF processingEnabled
           THEN /\ emitted' = [i \in 1..released |->
                                  Callback("literal", literals[i], FALSE)]
                /\ literals' = SubSeq(literals, released + 1, Len(literals))
                /\ retVal' = IF released = 0 THEN "SDL_NORMAL"
                               ELSE statusOf("literal")
           ELSE /\ emitted' = <<>>
                /\ retVal' = "SDL_NORMAL"
                /\ UNCHANGED literals
        /\ UNCHANGED <<condVars, aggVars, module, tables, constDef, parameters>>

\* sdl_declare. A name already declared is left as it is.
sdl_declare(name, sizeType) ==
    /\ Alive
    /\ UNCHANGED <<listing, opened, backend>>
    /\ call' = Called("declare", name)
    /\ retVal' = "SDL_NORMAL"
    /\ tables' = IF processingEnabled /\ name \notin idsIn(tables.declares)
                 THEN [tables EXCEPT !.declares =
                          Append(@, [id |-> name, typeID |-> tables.nextID.declares,
                                     type |-> sizeType, tag |-> "NULL",
                                     size |-> sdl_sizeof_type(sizeType)]),
                                      !.nextID.declares = @ + 1]
                 ELSE tables
    /\ emitted' = <<>>
    /\ UNCHANGED <<condVars, aggVars, module, literals, constDef, parameters>>

\* The string of the Tag option in the buffer, the last if several, "NULL" if
\* none.
tagOption ==
    LET ts == SelectSeq(options, LAMBDA o : o.option = "Tag")
    IN  IF ts = <<>> THEN "NULL" ELSE ts[Len(ts)].string

\* The completion of a declare or an item that resolved (or not) the tag r of
\* the entity queued last in table.
tagResolved(op, table, r) ==
    /\ Alive
    /\ UNCHANGED <<listing, opened, backend>>
    /\ call' = [Called(op, "") EXCEPT !.steps = r.steps]
    /\ retVal' = IF r.fault THEN "SIGSEGV"
                 ELSE IF op = "item_compl" /\ processingEnabled /\ tables.items # <<>>
                 THEN statusOf("item")
                 ELSE "SDL_NORMAL"
    /\ tables' = IF r.fault \/ ~processingEnabled \/ tables[table] = <<>> THEN tables
                 ELSE [tables EXCEPT ![table][Len(tables[table])].tag = r.tag]
    /\ emitted' = IF /\ op = "item_compl"
                     /\ processingEnabled
                     /\ ~r.fault
                     /\ tables.items # <<>>
                  THEN <<Callback("item", tables.items[Len(tables.items)].id, FALSE)>>
                  ELSE <<>>
    /\ options' = IF r.fault THEN options ELSE _sdl_reset_options
    /\ UNCHANGED <<condVars, nodes, currentAggr, aggregateDepth, fillerCount,
                   module, literals, constDef, parameters>>

\* Where processing is disabled, or no entity is queued, no tag is resolved.
noTag == Resolved("NULL", 0, FALSE)

\* sdl_declare_compl: the Prefix and Tag options go to the declare queued
\* last; no backend is called.
sdl_declare_compl ==
    tagResolved("declare_compl", "declares",
        IF processingEnabled /\ tables.declares # <<>>
        THEN _sdl_get_tag(tagOption, tables.declares[Len(tables.declares)].type,
                          sdl_all_lower(tables.declares[Len(tables.declares)].id), 0)
        ELSE noTag)

\* sdl_item. A name already registered takes the branch that reports
\* SDL_ABORT.
sdl_item(name, datatype) ==
    /\ Alive
    /\ UNCHANGED <<listing, opened, backend>>
    /\ call' = Called("item", name)
    /\ IF ~processingEnabled
       THEN /\ retVal' = "SDL_NORMAL"
            /\ UNCHANGED tables
       ELSE IF name \in idsIn(tables.items)
       THEN /\ retVal' = "SDL_ABORT"
            /\ UNCHANGED tables
       ELSE /\ retVal' = "SDL_NORMAL"
            /\ tables' = [tables EXCEPT !.items =
                              Append(@, [id |-> name, typeID |-> tables.nextID.items,
                                         type |-> datatype, tag |-> "NULL",
                                         size |-> sdl_sizeof_type(datatype)]),
                                          !.nextID.items = @ + 1]
    /\ emitted' = <<>>
    /\ UNCHANGED <<condVars, aggVars, module, literals, constDef, parameters>>

\* sdl_item_compl, after an sdl_item: the options go to the item queued last,
\* items.header.blink, which is handed to the backends.
sdl_item_compl ==
    tagResolved("item_compl", "items",
        IF processingEnabled /\ tables.items # <<>>
        THEN _sdl_get_tag(tagOption, tables.items[Len(tables.items)].type,
                          sdl_all_lower(tables.items[Len(tables.items)].id), 0)
        ELSE noTag)

\* sdl_constant
sdl_constant(id, value) ==
    /\ Alive
    /\ UNCHANGED <<listing, opened, backend>>
    /\ call' = Called("constant", id)
    /\ retVal' = "SDL_NORMAL"
    /\ constDef' = IF processingEnabled THEN [id |-> id, value |-> value] ELSE constDef
    /\ emitted' = <<>>
    /\ UNCHANGED <<condVars, aggVars, module, tables, literals, parameters>>

\* An Enumerate option: the name of the enumeration.
EnumerateOption(string) ==
    [option |-> "Enumerate", value |-> 0, subType |-> "NONE", string |-> string]

\* The texts of the constant lists declared, and the names the loop of
\* sdl_constant_compl cuts a text into at its commas; a text with no comma is
\* one name.
ConstantLists == {"a,b", "a,b,c"}

namesOf(id) ==
    CASE id = "a,b" -> <<"a", "b">>
      [] id = "a,b,c" -> <<"a", "b", "c">>
      [] OTHER -> <<id>>

\* The option of a kind that the options loop of sdl_constant_compl leaves in
\* its local: the last one in the buffer, 0 for none.
optionOf(kind) ==
    Max({0} \cup {i \in 1..Len(options) : options[i].option = kind})

\* The value the loop over a list holds at its k-th name: the declared value,
\* stepped only by an Increment that is present.
valueAt(k, value) ==
    IF optionOf("Increment") # 0
    THEN value + (k - 1) * options[optionOf("Increment")].value
    ELSE value

\* A member of an enumeration.
EnumMember(id, value, valueSet) == [id |-> id, value |-> value, valueSet |-> valueSet]

\* The members of the enumeration made of a constant declaration. Every
\* member of a list is given the pointer to the list text, which the loop has
\* cut behind its first name; no counter is declared, so prevValue stays the
\* declared value.
enumMembers(names, value) ==
    IF Len(names) = 1
    THEN <<EnumMember(names[1], value, value # 0)>>
    ELSE [k \in 1..Len(names) |->
             EnumMember(names[1], valueAt(k, value), (valueAt(k, value) - value) # 1)]

\* The constants of a constant declaration that are queued: those of a list
\* up to the first one a backend fails at.
listConstants(names, value) ==
    [k \in 1..(IF statusOf("constant") = "SDL_NORMAL" THEN Len(names) ELSE 1) |->
        Constant(names[k], "k", valueAt(k, value))]

\* sdl_constant_compl, after an sdl_constant, for a numeric constant, a list
\* of them or an enumeration.
\* constDef.id is searched for a comma before the processing gate is looked
\* at and freed behind it, and it is never cleared: where sdl_constant stored
\* nothing it is still NULL or points to the name freed by the completion
\* before. That read and that second free are undefined; faults says whether
\* they end the process.
sdl_constant_compl(faults) ==
    /\ Alive
    /\ faults => constDef.id \in {"NULL", "FREED"}
    /\ UNCHANGED <<listing, opened, backend>>
    /\ call' = Called("constant_compl", constDef.id)
    /\ IF faults
       THEN /\ retVal' = IF constDef.id = "NULL" THEN "SIGSEGV" ELSE "SIGABRT"
            /\ emitted' = <<>>
            /\ UNCHANGED <<tables, constDef, options>>
       ELSE /\ retVal' = IF ~processingEnabled THEN "SDL_NORMAL"
                         ELSE IF optionOf("Enumerate") # 0 THEN statusOf("enumerate")
                         ELSE statusOf("constant")
            /\ IF processingEnabled /\ optionOf("Enumerate") # 0
               THEN /\ tables' = [tables EXCEPT !.enums =
                                     Append(@, [id |-> options[optionOf("Enumerate")].string,
                                                members |-> enumMembers(namesOf(constDef.id),
                                                                        constDef.value)])]
                    /\ emitted' = <<Callback("enumerate",
                                             options[optionOf("Enumerate")].string, FALSE)>>
               ELSE IF processingEnabled
               THEN /\ tables' = [tables EXCEPT !.constants =
                                     @ \o listConstants(namesOf(constDef.id), constDef.value)]
                    /\ emitted' = queuedConstants(listConstants(namesOf(constDef.id),
                                                                constDef.value))
               ELSE /\ emitted' = <<>>
                    /\ UNCHANGED tables
            /\ constDef' = IF constDef.id = "NULL" THEN constDef
                           ELSE [constDef EXCEPT !.id = "FREED"]
            /\ options' = _sdl_reset_options
    /\ UNCHANGED <<condVars, nodes, currentAggr, aggregateDepth, fillerCount,
                   module, literals, parameters>>

\* sdl_add_parameter
sdl_add_parameter(datatype) ==
    /\ Alive
    /\ Len(parameters) < MaxParameters
    /\ UNCHANGED <<listing, opened, backend>>
    /\ call' = Called("add_parameter", datatype)
    /\ retVal' = "SDL_NORMAL"
    /\ parameters' = IF processingEnabled THEN Append(parameters, datatype)
                     ELSE parameters
    /\ emitted' = <<>>
    /\ UNCHANGED <<condVars, aggVars, module, tables, literals, constDef>>

\* sdl_entry: the entry takes the parameters buffered and goes to the
\* backends, whose return value is returned.
sdl_entry(name) ==
    /\ Alive
    /\ UNCHANGED <<listing, opened, backend>>
    /\ call' = Called("entry", name)
    /\ retVal' = IF processingEnabled THEN statusOf("entry") ELSE "SDL_NORMAL"
    /\ IF processingEnabled
       THEN /\ tables' = [tables EXCEPT !.entries =
                             Append(@, [id |-> name, parameters |-> parameters])]
            /\ parameters' = <<>>
            /\ emitted' = <<Callback("entry", name, FALSE)>>
       ELSE /\ emitted' = <<>>
            /\ UNCHANGED <<tables, parameters>>
    /\ options' = _sdl_reset_options
    /\ UNCHANGED <<condVars, nodes, currentAggr, aggregateDepth, fillerCount,
                   module, literals, constDef>>

\* ------------------------------------------------------------ the listing
SDL_PAGE_WIDTH == 132

SDL_PAGE_LENGTH == 66

\* Columns of the line number that starts a listing line ("%7d ").
NumberWidth == 8

\* Most pages of a listing and most lines listed.
MaxPages == 2

MaxListLines == 68

\* Empty lines handed over in one call.
LinesLen == 33

\* Characters of a run of text handed over in one call.
TextLen == 62

\* The statics of the listing writer as the program starts, and the file as
\* sdl_open_listing leaves it. Of the file the model keeps what its last page
\* starts with (head) and how many lines it holds (lines), the number of
\* pages, and whether so far a text line was wider than the page (wide), a
\* page held more lines than a page has (long) and a page started with a text
\* line (headless). overflow says that the call made last wrote behind the
\* end of xBuf.
OpenedListing ==
    [xBufLoc |-> 0, listLine |-> 1, pageLine |-> 1,
     head |-> "none", lines |-> 0, pages |-> 1,
     wide |-> FALSE, long |-> FALSE, headless |-> FALSE, overflow |-> FALSE]

\* fprintf of a form-feed: a new page starts.
pageFed(L) == [L EXCEPT !.pages = @ + 1, !.head = "none", !.lines = 0]

\* fprintf of the two header lines.
headerWritten(L) ==
    [L EXCEPT !.head = IF @ = "none" THEN "header" ELSE @,
              !.lines = @ + 2,
              !.long = @ \/ L.lines + 2 > SDL_PAGE_LENGTH]

\* fprintf of the text in xBuf, with the newline that ends the line or
\* without it.
textWritten(L, newline) ==
    [L EXCEPT !.head = IF @ = "none" THEN "text" ELSE @,
              !.headless = @ \/ L.head = "none",
              !.wide = @ \/ L.xBufLoc > SDL_PAGE_WIDTH,
              !.lines = IF newline THEN @ + 1 ELSE @,
              !.long = @ \/ (newline /\ L.lines + 1 > SDL_PAGE_LENGTH),
              !.overflow = @ \/ L.xBufLoc > SDL_PAGE_WIDTH]

\* The head of sdl_write_list: the page header where a page starts.
pageStarted(L) ==
    IF L.pageLine = 1
    THEN [headerWritten(IF L.listLine > 1 THEN pageFed(L) ELSE L)
             EXCEPT !.pageLine = @ + 2]
    ELSE L

\* One pass of the loop of sdl_write_list, for the character c, once the line
\* number is in xBuf.
numbered(L) == IF L.xBufLoc = 0 THEN [L EXCEPT !.xBufLoc = NumberWidth] ELSE L

charWritten(L, c) ==
    CASE c = "\r" -> L
      [] c = "\n" ->
            [textWritten(L, TRUE) EXCEPT !.listLine = @ + 1, !.pageLine = @ + 1,
                                         !.xBufLoc = 0]
      [] c # "\r" /\ c # "\n" /\ (c = "\f" \/ L.pageLine > SDL_PAGE_LENGTH) ->
            [pageFed(textWritten(L, FALSE)) EXCEPT !.xBufLoc = @ + 1, !.pageLine = 1]
      [] OTHER ->
            IF L.xBufLoc < SDL_PAGE_WIDTH THEN [L EXCEPT !.xBufLoc = @ + 1] ELSE L

\* The loop of sdl_write_list over buf from its character ii on.
RECURSIVE written(_, _, _)
written(L, buf, ii) ==
    IF ii > Len(buf) THEN L
    ELSE LET N == charWritten(numbered(L), buf[ii])
         IN  IF N.xBufLoc >= 0 THEN written(N, buf, ii + 1) ELSE N

\* sdl_write_list. Writing behind the end of xBuf is undefined: faults says
\* whether it ends the process.
sdl_write_list(buf, faults) ==
    /\ Alive
    /\ listing.pages <= MaxPages
    /\ listing.listLine <= MaxListLines
    /\ faults => written(pageStarted(listing), buf, 1).overflow
    /\ listing' = IF faults THEN listing
                  ELSE written([pageStarted(listing) EXCEPT !.overflow = FALSE], buf, 1)
    /\ retVal' = IF faults THEN "SIGSEGV" ELSE retVal
    /\ call' = Called("write_list", "")
    /\ emitted' = <<>>
    /\ UNCHANGED <<condVars, aggVars, regVars, opened, backend>>

\* The text the lexical analyzer hands over in one call.
Buffers ==
    {<<"\r">>, <<"\f">>, [i \in 1..TextLen |-> "x"], [i \in 1..LinesLen |-> "\n"],
     <<"x", "\n">>, <<"\f", "x", "\n">>}

\* The context as main() leaves it before parsing starts.
Constructed ==
    /\ condState = <<"CondNone">>
    /\ processingEnabled = TRUE
    /\ langEnableVec = [l \in Languages |-> TRUE]
    /\ nodes = <<>>
    /\ currentAggr = 0
    /\ aggregateDepth = 0
    /\ fillerCount = 0
    /\ options = <<>>
    /\ module = "NULL"
    /\ tables = EmptyTables
    /\ literals = <<>>
    /\ constDef = [id |-> "NULL", value |-> 0]
    /\ parameters = <<>>
    /\ emitted = <<>>
    /\ retVal = "SDL_NORMAL"
    /\ call = [op |-> "none", top |-> "CondNone", depth |-> 1,
               enabled |-> TRUE, arg |-> "", steps |-> 0]
    /\ listing = OpenedListing
    /\ opened = <<>>

\* The start with backends that return SDL_NORMAL from every callback.
Init == Constructed /\ backend = {}

NextCond == sdl_conditional

SpecCond == Init /\ [][NextCond]_vars

\* The aggregate declarations of a module, processing enabled throughout.
NextLayout ==
    \/ \E d \in {<<"NONE", "STRUCT">>, <<"NONE", "UNION">>, <<"LONG", "STRUCT">>} :
           sdl_aggregate("a", d[1], d[2])
    \/ \E o \in TrailingOptions : sdl_add_option(o)
    \/ sdl_aggregate_member
    \/ sdl_comment_line("c") /\ membersIn(nodes, 1) < MaxMembers /\ currentAggr # 0
    \/ \E overlay \in OverlaySizes : sdl_aggregate_compl("NULL", overlay)

SpecLayout == Init /\ [][NextLayout]_vars

\* The order the parser calls the entry points in. A statement of the module
\* body starts only where the one before is complete.
StatementStart ==
    /\ Alive
    /\ module # "NULL"
    /\ currentAggr = 0
    /\ call.op \notin {"literal", "declare", "item", "constant", "add_parameter",
                       "aggregate", "aggregate_member"}

\* Between AGGREGATE and its END; in a region that is not processed the
\* cursor does not tell.
InAggregate ==
    \/ currentAggr # 0
    \/ ~processingEnabled /\ call.op \in {"aggregate", "aggregate_member"}

\* The member declarations of an aggregate among other declarations.
ModuleDecls ==
    {[datatype |-> "BYTE", aggType |-> "NONE", quals |-> <<>>],
     [datatype |-> "NONE", aggType |-> "STRUCT", quals |-> <<>>]}

\* A module: MODULE, the statements of its body, END_MODULE.
Next ==
    \/ call.op \in {"none", "comment_line"} /\ sdl_module("mod")
    \/ StatementStart /\ \E name \in {"NULL", "other"} : sdl_module_end(name)
    \/ StatementStart /\ conditional(Symbols, {{"cc"}})
           /\ Len(condState') <= MaxModuleCondDepth
    \/ StatementStart /\ records < MaxRecords /\ sdl_set_local("l", 1)
    \/ (StatementStart \/ call.op = "literal") /\ module # "NULL"
           /\ \E line \in {"x", "y"} : sdl_literal(line)
    \/ call.op = "literal" /\ sdl_literal_end
    \/ StatementStart /\ records < MaxRecords /\ sdl_declare("d", SDL_K_TYPE_LONG)
    \/ call.op = "declare" /\ sdl_declare_compl
    \/ StatementStart /\ records < MaxRecords /\ sdl_item("i", SDL_K_TYPE_LONG)
    \/ call.op = "item" /\ sdl_item_compl
    \/ StatementStart /\ records < MaxRecords /\ sdl_constant("k", 1)
    \/ call.op = "constant" /\ \E faults \in BOOLEAN : sdl_constant_compl(faults)
    \/ (StatementStart \/ call.op = "add_parameter") /\ module # "NULL"
           /\ sdl_add_parameter("LONG")
    \/ (StatementStart \/ call.op = "add_parameter") /\ module # "NULL"
           /\ records < MaxRecords /\ sdl_entry("e")
    \/ StatementStart /\ \E d \in {<<"NONE", "STRUCT">>, <<"LONG", "STRUCT">>} :
                            sdl_aggregate("a", d[1], d[2])
    \/ InAggregate /\ aggregate_members(ModuleDecls, MaxModuleMembers)
    \/ InAggregate /\ \E overlay \in OverlaySizes : sdl_aggregate_compl("NULL", overlay)
    \/ (StatementStart \/ currentAggr # 0 \/ call.op \in {"none", "comment_line"})
           /\ membersIn(nodes, 1) < MaxModuleMembers /\ sdl_comment_line("c")

Spec == Init /\ [][Next]_vars

\* The members of structures whose bitfields ask for a mask constant.
MaskDecls ==
    {[datatype |-> "BITFLD", aggType |-> "NONE",
      quals |-> <<Option("Length", l), Option("Mask", 0)>>] : l \in {3, 6}}
    \cup {[datatype |-> "BITFLD", aggType |-> "NONE",
           quals |-> <<SubTypeOption("OCTA"), Option("Length", 60)>>
                     \o mask] : mask \in {<<>>, <<Option("Mask", 0)>>}}
    \cup {[datatype |-> "BYTE", aggType |-> "NONE", quals |-> <<>>],
          [datatype |-> "NONE", aggType |-> "STRUCT", quals |-> <<>>]}

NextMask ==
    \/ sdl_aggregate("a", "NONE", "STRUCT")
    \/ aggregate_members(MaskDecls, MaxMembers)
    \/ \E overlay \in OverlaySizes : sdl_aggregate_compl("NULL", overlay)

SpecMask == Init /\ [][NextMask]_vars

\* The callbacks a backend is taken to fail at, one at most in a run.
FailingCallbacks == {"aggregate", "item", "constant", "literal"}

InitBackend ==
    /\ Constructed
    /\ backend \in {{}} \cup {{callback} : callback \in FailingCallbacks}

\* The members of an aggregate handed to a backend: an item, a bitfield with
\* its mask constant, a subaggregate.
BackendDecls ==
    {[datatype |-> "BYTE", aggType |-> "NONE", quals |-> <<>>],
     [datatype |-> "BITFLD", aggType |-> "NONE",
      quals |-> <<Option("Length", 3), Option("Mask", 0)>>],
     [datatype |-> "NONE", aggType |-> "STRUCT", quals |-> <<>>]}

\* The statements of a module that call a backend.
NextBackend ==
    \/ call.op = "none" /\ sdl_module("mod")
    \/ (StatementStart \/ call.op = "literal") /\ module # "NULL"
           /\ \E line \in {"x", "y"} : sdl_literal(line)
    \/ call.op = "literal" /\ sdl_literal_end
    \/ StatementStart /\ records < MaxRecords /\ sdl_item("i", SDL_K_TYPE_LONG)
    \/ call.op = "item" /\ sdl_item_compl
    \/ StatementStart /\ records < MaxRecords /\ sdl_constant("k", 1)
    \/ call.op = "constant" /\ sdl_constant_compl(FALSE)
    \/ StatementStart /\ sdl_aggregate("a", "NONE", "STRUCT")
    \/ InAggregate /\ aggregate_members(BackendDecls, MaxModuleMembers)
    \/ InAggregate /\ \E overlay \in OverlaySizes : sdl_aggregate_compl("NULL", overlay)

SpecBackend == InitBackend /\ [][NextBackend]_vars

\* Most members, comments included, of a union of structures with comments.
CommentedMembers == 5

\* The members of structures with comments among their members.
CommentDecls ==
    {[datatype |-> "BYTE", aggType |-> "NONE", quals |-> <<>>],
     [datatype |-> "BITFLD", aggType |-> "NONE", quals |-> <<Option("Length", 3)>>],
     [datatype |-> "NONE", aggType |-> "STRUCT", quals |-> <<>>]}

\* A union of structures, with comment lines between their members.
NextComment ==
    \/ sdl_aggregate("a", "NONE", "UNION")
    \/ aggregate_members(CommentDecls, CommentedMembers)
    \/ currentAggr # 0 /\ membersIn(nodes, 1) < CommentedMembers
           /\ sdl_comment_line("c")
    \/ \E overlay \in OverlaySizes : sdl_aggregate_compl("NULL", overlay)

SpecComment == Init /\ [][NextComment]_vars

\* The start with backends that may fail at the callbacks of the module.
InitModule == Constructed /\ backend \in {{}, {"module"}}

\* A module and its end, and the ends that follow with no module open.
NextModule ==
    \/ call.op = "none" /\ sdl_module("mod")
    \/ StatementStart /\ records < MaxRecords /\ sdl_set_local("l", 1)
    \/ StatementStart /\ records < MaxRecords /\ sdl_declare("d", SDL_K_TYPE_LONG)
    \/ call.op = "declare" /\ sdl_declare_compl
    \/ StatementStart /\ records < MaxRecords /\ sdl_item("i", SDL_K_TYPE_LONG)
    \/ call.op = "item" /\ sdl_item_compl
    \/ StatementStart /\ records < MaxRecords /\ sdl_constant("k", 1)
    \/ call.op = "constant" /\ sdl_constant_compl(FALSE)
    \/ StatementStart /\ records < MaxRecords /\ sdl_entry("e")
    \/ StatementStart /\ sdl_aggregate("a", "NONE", "STRUCT")
    \/ InAggregate /\ aggregate_members(ModuleDecls, MaxModuleMembers)
    \/ InAggregate /\ \E overlay \in OverlaySizes : sdl_aggregate_compl("NULL", overlay)
    \/ (StatementStart \/ (module = "NULL" /\ call.op = "module_end"))
           /\ \E name \in {"NULL", "other"} : sdl_module_end(name)

SpecModule == InitModule /\ [][NextModule]_vars

\* Aggregates and their ENDs, with no name, the aggregate's name or another.
NextEnd ==
    \/ \E d \in {<<"NONE", "STRUCT">>, <<"NONE", "UNION">>, <<"LONG", "STRUCT">>} :
           sdl_aggregate("a", d[1], d[2])
    \/ aggregate_members(ModuleDecls, MaxModuleMembers)
    \/ \E name \in {"NULL", "a", "other"}, overlay \in OverlaySizes :
           sdl_aggregate_compl(name, overlay)

SpecEnd == Init /\ [][NextEnd]_vars

\* The lengths of zero and less that bitfields are declared with.
NoLengths == {-2, -1, 0}

\* Members whose bitfields all have a length of zero or less.
NoLengthDecls ==
    {[datatype |-> "BITFLD", aggType |-> "NONE", quals |-> <<Option("Length", l)>>] :
        l \in NoLengths}
    \cup {[datatype |-> "BYTE", aggType |-> "NONE", quals |-> <<>>]}

\* Structures with bitfields of no length.
NextNoLength ==
    \/ sdl_aggregate("a", "NONE", "STRUCT")
    \/ aggregate_members(NoLengthDecls, MaxMembers)
    \/ \E overlay \in OverlaySizes : sdl_aggregate_compl("NULL", overlay)

SpecNoLength == Init /\ [][NextNoLength]_vars

\* Unsized bitfields of the lengths that fill a byte and start the next.
PackedDecls ==
    {[datatype |-> "BITFLD", aggType |-> "NONE", quals |-> <<Option("Length", l)>>] :
        l \in {1, 3, 5}}

\* Structures and unions of unsized bitfields.
NextPacked ==
    \/ \E aggType \in {"STRUCT", "UNION"} : sdl_aggregate("a", "NONE", aggType)
    \/ aggregate_members(PackedDecls, MaxMembers)
    \/ \E overlay \in OverlaySizes : sdl_aggregate_compl("NULL", overlay)

SpecPacked == Init /\ [][NextPacked]_vars

\* Most options of a constant declaration.
MaxConstantOptions == 2

\* Most constant declarations of a module of constants.
MaxConstantDecls == 2

\* The options of a constant declaration.
ConstantOptions == {EnumerateOption("e"), Option("Increment", 1), Option("Increment", 2)}

\* A module of constants, constant lists and enumerations.
NextEnum ==
    \/ call.op = "none" /\ sdl_module("mod")
    \/ StatementStart /\ Len(tables.constants) + Len(tables.enums) < MaxConstantDecls
           /\ \E id \in {"k"} \cup ConstantLists : \E value \in {0, 1} :
                  sdl_constant(id, value)
    \/ call.op \in {"constant", "add_option"}
           /\ \E o \in ConstantOptions :
                  /\ optionOf(o.option) = 0
                  /\ optionAdded(o, MaxConstantOptions)
    \/ call.op \in {"constant", "add_option"} /\ sdl_constant_compl(FALSE)

SpecEnum == Init /\ [][NextEnum]_vars

\* The callbacks a backend is taken to fail at behind pending options.
InitOptions ==
    /\ Constructed
    /\ backend \in {{}} \cup {{callback} : callback \in {"item", "constant", "entry"}}

\* The option each kind of statement is declared with.
optionFor(op) ==
    CASE op = "declare" -> TagOption("T_")
      [] op = "item" -> Option("Dimension", 1)
      [] op = "constant" -> Option("Increment", 1)
      [] op = "entry" -> Option("Variable", 0)
      [] op = "aggregate_member" -> Option("Align", 0)

\* The statement op is being parsed: its first entry point was called last,
\* or its option was added last.
Parsing(op) ==
    \/ call.op = op
    \/ call.op = "add_option" /\ call.arg = optionFor(op).option

\* A statement starts where no other is being parsed.
OptionsStart == StatementStart /\ call.op # "add_option"

\* The statements of a module with their options: the entry points that
\* complete an entity are called with options pending.
NextOptions ==
    \/ call.op = "none" /\ sdl_module("mod")
    \/ OptionsStart /\ CondIfSymbol("s0") /\ emitted' = <<>>
           /\ UNCHANGED <<aggVars, regVars, opened>>
    \/ OptionsStart /\ CondEndIfSymbol /\ emitted' = <<>>
           /\ UNCHANGED <<aggVars, regVars, opened>>
    \/ OptionsStart /\ records < MaxRecords /\ sdl_declare("d", SDL_K_TYPE_LONG)
    \/ Parsing("declare") /\ sdl_declare_compl
    \/ OptionsStart /\ records < MaxRecords /\ sdl_item("i", SDL_K_TYPE_LONG)
    \/ Parsing("item") /\ sdl_item_compl
    \/ OptionsStart /\ records < MaxRecords /\ sdl_constant("k", 1)
    \/ Parsing("constant") /\ sdl_constant_compl(FALSE)
    \/ \E op \in {"declare", "item", "constant"} :
           call.op = op /\ optionAdded(optionFor(op), MaxOptions)
    \/ (OptionsStart \/ call.op = "add_parameter") /\ records < MaxRecords
           /\ optionAdded(optionFor("entry"), MaxOptions)
    \/ (OptionsStart \/ Parsing("entry") \/ call.op = "add_parameter")
           /\ sdl_add_parameter("LONG")
    \/ (OptionsStart \/ Parsing("entry") \/ call.op = "add_parameter")
           /\ records < MaxRecords /\ sdl_entry("e")
    \/ OptionsStart /\ sdl_aggregate("a", "NONE", "STRUCT")
    \/ (InAggregate \/ Parsing("aggregate_member")) /\ call.op # "add_option"
           /\ module # "NULL" /\ optionAdded(optionFor("aggregate_member"), MaxOptions)
    \/ (InAggregate \/ Parsing("aggregate_member"))
           /\ aggregate_members(ModuleDecls, MaxModuleMembers)
    \/ (InAggregate \/ Parsing("aggregate_member"))
           /\ \E overlay \in OverlaySizes : sdl_aggregate_compl("NULL", overlay)

SpecOptions == InitOptions /\ [][NextOptions]_vars

\* The listing of an input file.
NextListing == \E buf \in Buffers : \E faults \in BOOLEAN : sdl_write_list(buf, faults)

SpecListing == Init /\ [][NextListing]_vars

\* Deepest nesting of the conditionals of a well-nested input.
MaxNesting == 2

\* A conditional that the input opens: its kind, the context as its IF
\* directive found it, the branch the input is in, the gate that its own
\* directive left last, whether a branch of it was enabled so far, and
\* whether it held a language conditional.
Block(kind) ==
    [kind |-> kind, condState |-> condState, processingEnabled |-> processingEnabled,
     langEnableVec |-> langEnableVec, branch |-> "if",
     gate |-> processingEnabled', taken |-> processingEnabled', held |-> FALSE]

\* The conditional whose branch the input is in.
innermost == opened[Len(opened)]

\* The innermost conditional in its next branch.
Branched(branch) ==
    [opened EXCEPT ![Len(opened)] =
        [@ EXCEPT !.branch = branch, !.gate = processingEnabled',
                  !.taken = @ \/ processingEnabled']]

\* The directives of an input whose conditionals are nested in one another:
\* each ELSE_IFSYMBOL, ELSE and END is written for the conditional opened
\* last and not yet ended.
NextNested ==
    /\ \/ \E symbol \in Symbols :
              /\ Len(opened) < MaxNesting
              /\ CondIfSymbol(symbol)
              /\ opened' = Append(opened, Block("symbol"))
       \/ \E langs \in {{"cc"}, {"pas"}} :
              /\ Len(opened) < MaxNesting
              /\ CondIfLanguage(langs)
              /\ opened' = Append(IF opened = <<>> THEN opened
                                  ELSE [opened EXCEPT ![Len(opened)].held = TRUE],
                                  Block("language"))
       \/ \E symbol \in Symbols :
              /\ opened # <<>>
              /\ innermost.kind = "symbol" /\ innermost.branch # "else"
              /\ CondElseIfSymbol(symbol)
              /\ opened' = Branched("elseif")
       \/ /\ opened # <<>>
          /\ innermost.branch # "else"
          /\ CondElse
          /\ opened' = Branched("else")
       \/ /\ opened # <<>>
          /\ innermost.kind = "symbol"
          /\ CondEndIfSymbol
          /\ opened' = SubSeq(opened, 1, Len(opened) - 1)
       \/ /\ opened # <<>>
          /\ innermost.kind = "language"
          /\ CondEndIfLanguage
          /\ opened' = SubSeq(opened, 1, Len(opened) - 1)
    /\ emitted' = <<>>
    /\ UNCHANGED <<aggVars, regVars>>

SpecNested == Init /\ [][NextNested]_vars

\* sdl_aggregate_compl with processing enabled and no aggregate open: the
\* depth is decremented whatever it was, and as it is not 0 afterwards the
\* cursor is read from the parent field of the subaggregate at the null
\* cursor. The read is undefined: the process is ended by the access, or it
\* goes on with a null parent and whatever the name test makes of the
\* subaggregate's name.
strayEnd(name) ==
    /\ Alive
    /\ processingEnabled
    /\ currentAggr = 0
    /\ aggregateDepth = 0
    /\ options = <<>>
    /\ UNCHANGED <<listing, opened, backend>>
    /\ call' = Called("aggregate_compl", name)
    /\ aggregateDepth' = aggregateDepth - 1
    /\ \E status \in {"SIGSEGV", "SDL_NORMAL", "SDL_MATCHEND", "SDL_NULLSTRUCT"} :
           retVal' = status
    /\ currentAggr' = 0
    /\ emitted' = <<>>
    /\ options' = _sdl_reset_options
    /\ UNCHANGED <<condVars, nodes, fillerCount, tables, module, literals, constDef,
                   parameters>>

\* sdl_aggregate_member for an item with processing enabled and no aggregate
\* open: the member is allocated with no parent and its alignment is read from
\* the subaggregate at the null cursor. The read is undefined: the process is
\* ended by the access, or it goes on and the member is queued nowhere.
strayMember(name, datatype) ==
    /\ Alive
    /\ processingEnabled
    /\ currentAggr = 0
    /\ aggregateDepth = 0
    /\ options = <<>>
    /\ UNCHANGED <<listing, opened, backend>>
    /\ call' = Called("aggregate_member", datatype)
    /\ \E status \in {"SIGSEGV", "SDL_NORMAL"} : retVal' = status
    /\ emitted' = <<>>
    /\ options' = _sdl_reset_options
    /\ UNCHANGED <<condVars, aggVars, tables, module, literals, constDef, parameters>>

\* An aggregate with a subaggregate, conditional directives anywhere between
\* its directives, and the member and END directives that arrive with no
\* aggregate open.
NextCursor ==
    \/ Alive /\ conditional(Symbols, {{"cc"}})
    \/ sdl_aggregate("a", "NONE", "STRUCT")
    \/ aggregate_members(ModuleDecls, MaxModuleMembers)
    \/ sdl_aggregate_compl("NULL", 0)
    \/ strayMember("x", "BYTE")
    \/ strayEnd("NULL")

SpecCursor == Init /\ [][NextCursor]_vars

\* sdl_aggregate_member for an item with processing enabled and the cursor at
\* an aggregate that sdl_module_end released: the member is allocated and the
\* aggregate's fields and member list are read from freed memory. The reads
\* are undefined: the process is ended by one of them, or it goes on and the
\* member is queued in memory that belongs to no aggregate.
releasedMember(name, datatype) ==
    /\ Alive
    /\ processingEnabled
    /\ currentAggr # 0
    /\ currentAggr \notin 1..Len(nodes)
    /\ options = <<>>
    /\ UNCHANGED <<listing, opened, backend>>
    /\ call' = Called("aggregate_member", datatype)
    /\ \E status \in {"SIGSEGV", "SDL_NORMAL"} : retVal' = status
    /\ emitted' = <<>>
    /\ options' = _sdl_reset_options
    /\ UNCHANGED <<condVars, aggVars, tables, module, literals, constDef, parameters>>

\* A module with an aggregate, conditional directives between the
\* aggregate's directives, and the end of the module wherever it arrives,
\* also between AGGREGATE and an END that was not processed.
NextRelease ==
    \/ call.op = "none" /\ sdl_module("mod")
    \/ Alive /\ module # "NULL" /\ conditional(Symbols, {{"cc"}})
    \/ module # "NULL" /\ sdl_aggregate("a", "NONE", "STRUCT")
    \/ module # "NULL" /\ aggregate_members(ModuleDecls, MaxModuleMembers)
    \/ module # "NULL" /\ sdl_aggregate_compl("NULL", 0)
    \/ module # "NULL" /\ sdl_module_end("NULL")
    \/ module = "NULL" /\ releasedMember("x", "BYTE")

SpecRelease == Init /\ [][NextRelease]_vars

\* The declarations that name types: DECLARE, ITEM and AGGREGATE with the
\* TAG option, processing enabled throughout.
\* The type a declaration refers to: a base type or a type ID issued.
TypeRefs ==
    {SDL_K_TYPE_LONG}
    \cup {tables.declares[i].typeID : i \in 1..Len(tables.declares)}
    \cup {tables.items[i].typeID : i \in 1..Len(tables.items)}
    \cup {nodes[i].typeID : i \in {j \in 1..Len(nodes) : nodes[j].parent = 0}}

\* The names declarations use, in the order they are used in.
DeclareNames == <<"d", "D", "e">>

ItemNames == <<"i">>

\* The entity queued last in the table awaits its completion.
pending(table) == table # <<>> /\ table[Len(table)].tag = "NULL"

\* A declaration starts only where the one before is complete.
DeclarationStart ==
    /\ currentAggr = 0
    /\ ~pending(tables.declares)
    /\ ~pending(tables.items)

NextRegistry ==
    \/ DeclarationStart /\ Len(tables.declares) < Len(DeclareNames)
           /\ \E sizeType \in TypeRefs :
                  sdl_declare(DeclareNames[Len(tables.declares) + 1], sizeType)
    \/ pending(tables.declares) /\ sdl_declare_compl
    \/ DeclarationStart /\ Len(tables.items) < Len(ItemNames)
           /\ \E datatype \in TypeRefs :
                  sdl_item(ItemNames[Len(tables.items) + 1], datatype)
    \/ pending(tables.items) /\ sdl_item_compl
    \/ \E tag \in {"", "T_"} :
           /\ tag = "" => currentAggr # 0
           /\ sdl_add_option(TagOption(tag))
    \/ DeclarationStart /\ sdl_aggregate("a", "NONE", "STRUCT")
    \/ aggregate_members({[datatype |-> "BYTE", aggType |-> "NONE", quals |-> <<>>]}, 1)
    \/ sdl_aggregate_compl("NULL", 0)

SpecRegistry == Init /\ [][NextRegistry]_vars

\* ------------------------------------------------------------------ claims
\* The call made last was a conditional directive.
CondCalled == call.op \in Directives

\* C1: a directive arriving in a state from which the transition table does
\* not list it returns InvalidConditionalState, whatever state the dispatcher
\* is in.
C1_UnlistedTransitionRejected ==
    (CondCalled /\ <<call.top, call.op>> \notin AllowedTransitions)
        => retVal = "SDL_INVCONDST"

\* C3: an IfSymbol or ElseIfSymbol directive that arrives in a state the table
\* allows and names a symbol with no binding returns SymbolNotDefined.
C3_UnboundSymbolRejected ==
    (/\ call.op \in {"IfSymbol", "ElseIfSymbol"}
     /\ <<call.top, call.op>> \in AllowedTransitions
     /\ call.arg \notin Symbols)
        => retVal = "SDL_SYMNOTDEF"

\* C4: a listed transition is accepted: the directive (naming a bound symbol
\* where it names one) returns Normal, and the stack's top becomes the To
\* state, or is popped for EndIfSymbol and EndIfLanguage.
C4_ListedTransitionAccepted ==
    (/\ CondCalled
     /\ <<call.top, call.op>> \in AllowedTransitions
     /\ (call.op \in {"IfSymbol", "ElseIfSymbol"} => call.arg \in Symbols))
        => /\ retVal = "SDL_NORMAL"
           /\ IF call.op \in {"EndIfSymbol", "EndIfLanguage"}
              THEN Len(condState) = call.depth - 1
              ELSE /\ SDL_CUR_COND_STATE(condState) = ToState(call.op)
                   /\ Len(condState) =
                        IF call.op \in {"IfSymbol", "IfLanguage"}
                        THEN call.depth + 1 ELSE call.depth

\* ------------------------------------------------------------- layout claims
\* The aggregates and subaggregates that sdl_aggregate_compl has closed.
ClosedNodes == {i \in 1..Len(nodes) : nodes[i].closed}

\* The positions of the members of a member list that are no comments.
NonComments(ms) == {k \in 1..Len(ms) : ~sdl_isComment(ms[k])}

\* The member at k shares the host integer of the member at p before it.
SharesHost(ms, k, p) ==
    /\ sdl_isBitfield(ms[k])
    /\ sdl_isBitfield(ms[p])
    /\ ms[k].offset = ms[p].offset
    /\ ms[k].bitOffset # 0

\* The bitfield type with the smallest host integer that holds bits.
FitType(bits) ==
    IF bits <= 8 THEN "BITFLD_B"
    ELSE IF bits <= 16 THEN "BITFLD_W"
    ELSE IF bits <= 32 THEN "BITFLD_L"
    ELSE IF bits <= 64 THEN "BITFLD_Q"
    ELSE "BITFLD_O"

\* The positions of the run of contiguous bitfields, neither specifically sized
\* nor wider than a byte, that ends at position p.
RECURSIVE RunEndingAt(_, _)
RunEndingAt(ms, p) ==
    IF p = 0 \/ ~resizable(ms[p]) \/ ms[p].type # "BITFLD_B" THEN {}
    ELSE {p} \cup RunEndingAt(ms, prevNonComment(ms, p - 1))

RECURSIVE BitsOf(_, _)
BitsOf(ms, R) ==
    IF R = {} THEN 0
    ELSE LET k == CHOOSE x \in R : TRUE IN ms[k].length + BitsOf(ms, R \ {k})

\* No aggregate or subaggregate was closed empty (SDL_NULLSTRUCT).
NoneEmpty == \A i \in ClosedNodes : nodes[i].members # <<>>

\* C5: after an aggregate or subaggregate A is closed, every member M of A that
\* is no comment lies inside A: 0 <= M.offset < A.size and
\* M.offset + M.size x M.dimension <= A.size.
C5_MembersInsideAggregate ==
    NoneEmpty =>
    \A i \in ClosedNodes :
        \A k \in NonComments(nodes[i].members) :
            LET M == nodes[i].members[k]
            IN  /\ 0 <= M.offset
                /\ M.offset < nodes[i].size
                /\ M.offset + memberExtent(M) <= nodes[i].size

\* C6: in a closed aggregate every bitfield, fillers included, ends inside its
\* host integer, and two bitfields that share a host integer have the same
\* host width.
C6_BitfieldsFitHost ==
    \A i \in ClosedNodes :
        LET ms == nodes[i].members
        IN  \A k \in NonComments(ms) :
                sdl_isBitfield(ms[k]) =>
                    /\ ms[k].bitOffset + ms[k].length <= hostSize(ms[k].type) * 8
                    /\ LET p == prevNonComment(ms, k - 1)
                       IN  (p # 0 /\ SharesHost(ms, k, p)) => ms[k].type = ms[p].type

\* C7: when sdl_aggregate_member adds a bitfield, not specifically sized, that
\* does not fit behind a run of contiguous byte-host bitfields not specifically
\* sized, the run and the new member all get the smallest host that holds the
\* sum of their lengths.
C7_OverflowPromotesRun ==
    [][ LET ms == nodes[currentAggr].members
            p == prevNonComment(ms, Len(ms))
            R == RunEndingAt(ms, p)
            after == nodes'[currentAggr].members
            new == after[Len(after)]
        IN  ( /\ call'.op = "aggregate_member"
              /\ call'.arg = "BITFLD"
              /\ retVal' = "SDL_NORMAL"
              /\ currentAggr # 0
              /\ R # {}
              /\ ~new.sizedBitfield
              /\ new.length > availBitsOf(ms[p]) )
            => \A k \in R \cup {Len(after)} :
                   after[k].type = FitType(BitsOf(ms, R) + new.length) ]_vars

\* C8: in a closed structure laid out with Align or an explicit alignment,
\* the offset of every item is a multiple of the alignment recorded on it: its
\* size under Align, N under an explicit N.
C8_OffsetsAligned ==
    \A i \in ClosedNodes :
        (nodes[i].aggType = "STRUCT" /\ nodes[i].alignment # SDL_K_NOALIGN) =>
            \A k \in NonComments(nodes[i].members) :
                LET M == nodes[i].members[k]
                IN  (sdl_isItem(M) /\ M.alignment # SDL_K_NOALIGN) =>
                        M.offset % (IF M.alignment = SDL_K_ALIGN
                                    THEN M.size ELSE M.alignment) = 0

\* C9: in a closed structure the first member starts at 0, and every later
\* member that does not share the host integer of the member before it starts
\* at or after that member's end, exactly there when nothing is aligned.
C9_StructMembersFollow ==
    \A i \in ClosedNodes :
        nodes[i].aggType = "STRUCT" =>
            LET ms == nodes[i].members
            IN  \A k \in NonComments(ms) :
                    LET p == prevNonComment(ms, k - 1)
                    IN  IF p = 0 THEN ms[k].offset = 0
                        ELSE IF SharesHost(ms, k, p) THEN TRUE
                        ELSE /\ ms[k].offset >= ms[p].offset + memberExtent(ms[p])
                             /\ (nodes[i].alignment = SDL_K_NOALIGN /\
                                 ms[k].alignment = SDL_K_NOALIGN)
                                   => ms[k].offset = ms[p].offset + memberExtent(ms[p])

\* C10: every member of a closed union, explicit or implicit, has offset 0.
C10_UnionMembersAtZero ==
    \A i \in ClosedNodes :
        nodes[i].aggType = "UNION" =>
            \A k \in NonComments(nodes[i].members) :
                nodes[i].members[k].offset = 0

\* ---------------------------------------------------- processing gate claims
\* C2: while processing is disabled, every entry point other than the
\* conditional directives (module and end_module, declare, item, constant,
\* aggregate, aggregate member, aggregate END, entry, parameter, literal and
\* comment) returns SDL_NORMAL, calls no backend, and leaves the registry
\* tables, the aggregate cursor and depth, all member lists and the literal
\* queue unchanged.
C2_DisabledEntryPointsInert ==
    [][(~processingEnabled /\ call'.op \notin Directives)
          => /\ retVal' = "SDL_NORMAL"
             /\ emitted' = <<>>
             /\ UNCHANGED <<tables, nodes, currentAggr, aggregateDepth, literals>>]_vars

\* ------------------------------------------------------------- size claims
\* The closed unions that have members.
ClosedUnions ==
    {i \in ClosedNodes : nodes[i].aggType = "UNION" /\ nodes[i].members # <<>>}

LastLaidOut(ms) ==
    Max({0} \cup {k \in NonComments(ms) :
                      \A f \in 1..Len(FillerNames) : ms[k].id # FillerNames[f]})

\* C12: a closed structure has the size that the offset of its last member
\* taking part in the layout, plus that member's size times its dimension,
\* gives, whatever comments or fillers end its member list.
C12_StructSizeFromLastMember ==
    \A i \in ClosedNodes :
        LET ms == nodes[i].members
            p == LastLaidOut(ms)
        IN  (nodes[i].aggType = "STRUCT" /\ p # 0) =>
                nodes[i].size =
                    ms[p].offset +
                        (IF sdl_isItem(ms[p])
                         THEN ms[p].size * dimensionOf(ms[p])
                         ELSE nodes[ms[p].sub].size * dimensionOf(nodes[ms[p].sub]))

\* ----------------------------------------------------------- filler claims
\* The member is one of the synthesised fillers.
IsFiller(member) == \E f \in 1..Len(FillerNames) : member.id = FillerNames[f]

\* The first position after k that holds no comment, 0 if none.
NextLaidOut(ms, k) ==
    IF \E q \in NonComments(ms) : q > k
    THEN CHOOSE q \in NonComments(ms) : q > k /\ \A x \in NonComments(ms) : x > k => q <= x
    ELSE 0

\* The declared bitfields of a closed structure after which the host integer
\* is sealed with bits to spare.
SealedWithSpare(i) ==
    LET ms == nodes[i].members
    IN  {k \in NonComments(ms) :
            /\ nodes[i].aggType = "STRUCT"
            /\ sdl_isBitfield(ms[k])
            /\ ~IsFiller(ms[k])
            /\ availBitsOf(ms[k]) > 0
            /\ LET q == NextLaidOut(ms, k)
               IN  q = 0 \/ IsFiller(ms[q]) \/ ~SharesHost(ms, q, k)}

\* C14: in a closed structure, a host integer sealed with unused bits is
\* followed, after its last bitfield, by a filler that starts at the bit after
\* the last bit used and is as long as the bits left.
C14_FillerTakesUnusedBits ==
    \A i \in ClosedNodes :
        \A k \in SealedWithSpare(i) :
            LET ms == nodes[i].members
                q == NextLaidOut(ms, k)
            IN  /\ q # 0
                /\ IsFiller(ms[q])
                /\ ms[q].offset = ms[k].offset
                /\ ms[q].bitOffset = ms[k].bitOffset + ms[k].length
                /\ ms[q].length = availBitsOf(ms[k])

\* The declared bitfields with an explicit host size, as <<node, position>>.
SizedBitfields ==
    {x \in UNION {{<<i, k>> : k \in 1..Len(nodes[i].members)} : i \in 1..Len(nodes)} :
        /\ nodes[x[1]].members[x[2]].sizedBitfield
        /\ ~IsFiller(nodes[x[1]].members[x[2]])}

\* C15: a bitfield declared with an explicit host size has the host of that
\* size, from the call that adds it until its aggregate is closed and after.
C15_SizedBitfieldKeepsHost ==
    \A x \in SizedBitfields :
        nodes[x[1]].members[x[2]].type = bitfieldOf(nodes[x[1]].members[x[2]].subType)

\* The bits a member holds: a bitfield its length, an item or a subaggregate
\* its bytes.
BitsHeld(member) ==
    IF sdl_isBitfield(member) THEN member.length
    ELSE IF sdl_isItem(member) THEN 8 * member.size * dimensionOf(member)
    ELSE 8 * nodes[member.sub].size * dimensionOf(nodes[member.sub])

\* The declared members of a member list: neither comments nor fillers.
Declared(ms) == {k \in NonComments(ms) : ~IsFiller(ms[k])}

\* The closed implicit unions whose scalar type is larger than their largest
\* member.
ShortImplicitUnions ==
    {i \in ClosedUnions :
        /\ nodes[i].type \in ScalarTypes
        /\ \A k \in Declared(nodes[i].members) :
               BitsHeld(nodes[i].members[k]) < 8 * sdl_sizeof(nodes[i].type)}

\* C16: an implicit union whose scalar type is larger than its largest member
\* is closed with exactly one filler, its last member, as large as the scalar
\* type less the largest member, and has the size of the scalar type.
C16_UnionFillerIsDifference ==
    \A i \in ShortImplicitUnions :
        LET ms == nodes[i].members
            largest == Max({0} \cup {BitsHeld(ms[k]) : k \in Declared(ms)})
        IN  /\ {k \in NonComments(ms) : IsFiller(ms[k])} = {Len(ms)}
            /\ BitsHeld(ms[Len(ms)]) = 8 * sdl_sizeof(nodes[i].type) - largest
            /\ nodes[i].size = sdl_sizeof(nodes[i].type)

\* ------------------------------------------------------------- mask claims
\* The bitfields of closed (sub)aggregates that asked for a mask, as
\* <<node, position>>.
MaskedBitfields ==
    {x \in UNION {{<<i, k>> : k \in 1..Len(nodes[i].members)} : i \in ClosedNodes} :
        /\ sdl_isBitfield(nodes[x[1]].members[x[2]])
        /\ nodes[x[1]].members[x[2]].mask}

\* (2^length - 1) shifted left by the bit offset, as the set of its bits.
ShiftedOnes(member) == member.bitOffset..(member.bitOffset + member.length - 1)

\* The mask constants queued.
MaskConstants == {c \in 1..Len(tables.constants) : tables.constants[c].tag = "m"}

\* C17: the mask constants emitted are those of the bitfields that asked for a
\* mask, each with the value (2^length - 1) shifted left by the bitfield's
\* final bit offset.
C17_MaskIsShiftedOnes ==
    /\ Cardinality(MaskConstants) = Cardinality(MaskedBitfields)
    /\ \A x \in MaskedBitfields :
           LET bits == ShiftedOnes(nodes[x[1]].members[x[2]])
           IN  Cardinality({c \in MaskConstants : tables.constants[c].value = bits})
                   = Cardinality({y \in MaskedBitfields :
                                     ShiftedOnes(nodes[y[1]].members[y[2]]) = bits})

\* ----------------------------------------------------------- registry claims
\* The user types on the way from a type reference to its base type: the
\* length of the declare chain behind the reference.
RECURSIVE chainLength(_, _)
chainLength(datatype, fuel) ==
    IF fuel = 0 \/ entitiesOf(datatype) = <<>> THEN 0
    ELSE IF datatype \in SDL_K_AGGREGATE_MIN..SDL_K_AGGREGATE_MAX THEN 1
    ELSE 1 + chainLength(entitiesOf(datatype)[1].type, fuel - 1)

\* The type reference whose tag the completion called last resolved.
ResolvedReference ==
    IF call.op = "declare_compl"
    THEN tables.declares[Len(tables.declares)].type
    ELSE tables.items[Len(tables.items)].type

\* C13: tag resolution terminates, after no more recursive calls than the
\* declare chain behind the type reference is long, whatever the registry
\* holds and whatever type is referred to.
C13_TagResolutionTerminates ==
    (call.op \in {"declare_compl", "item_compl"} /\ call.enabled) =>
        /\ retVal # "SIGSEGV"
        /\ call.steps <= chainLength(ResolvedReference,
                                     Len(tables.declares) + Len(tables.items) + 1)

\* The type IDs of a namespace, in the order its entities were created.
issuedIDs(table) == [k \in 1..Len(table) |-> table[k].typeID]

Aggregates == SelectSeq(nodes, LAMBDA n : n.parent = 0)

\* The type IDs of a namespace increase strictly and lie in first..last.
IssuedWithin(ids, first, last) ==
    /\ \A k \in 1..Len(ids) : ids[k] \in first..last
    /\ \A j, k \in 1..Len(ids) : j < k => ids[j] < ids[k]

\* C18: in each namespace the type IDs are issued in strictly increasing order
\* and inside the namespace's own range, so that no two entities carry the
\* same type ID.
C18_TypeIDsWithinNamespace ==
    LET ds == issuedIDs(tables.declares)
        is == issuedIDs(tables.items)
        as == issuedIDs(Aggregates)
        all == ds \o is \o as
    IN  /\ IssuedWithin(ds, SDL_K_DECLARE_MIN, SDL_K_DECLARE_MAX)
        /\ IssuedWithin(is, SDL_K_ITEM_MIN, SDL_K_ITEM_MAX)
        /\ IssuedWithin(as, SDL_K_AGGREGATE_MIN, SDL_K_AGGREGATE_MAX)
        /\ \A j, k \in 1..Len(all) : j # k => all[j] # all[k]

\* ---------------------------------------------------------- backend claims
\* The callbacks of the entry point called last at which a backend returned
\* an error.
FailedCallbacks == {i \in 1..Len(emitted) : statusOf(emitted[i].callback) # "SDL_NORMAL"}

\* C19: an entry point during which a backend callback returned an error
\* code returns that error code, whichever the callback.
C19_CallbackErrorReturned ==
    \A i \in FailedCallbacks : retVal = statusOf(emitted[i].callback)

\* ---------------------------------------------------------- literal claims
\* C20: when sdl_literal_end returns with processing enabled, the backend has
\* received the lines queued since LITERAL, each once and in their order, and
\* the queue is empty.
C20_LiteralLinesReleased ==
    [][(call'.op = "literal_end" /\ processingEnabled)
           => /\ emitted' = [i \in 1..Len(literals) |->
                                Callback("literal", literals[i], FALSE)]
              /\ literals' = <<>>]_vars

\* ---------------------------------------------------------- comment claims
\* The members declared in a member list, comments and fillers left out, in
\* their order.
DeclaredSeq(ms) == SelectSeq(ms, LAMBDA member : ~sdl_isComment(member) /\ ~IsFiller(member))

\* What was declared of a member: an item's type, a bitfield's host asked for
\* and length, whether it is an array.
declarationOf(member) ==
    [type |-> IF sdl_isBitfield(member) THEN "BITFLD" ELSE member.type,
     subType |-> member.subType, length |-> member.length,
     sizedBitfield |-> member.sizedBitfield, dimension |-> dimensionOf(member)]

\* Where the layout put a member.
placeOf(member) == [offset |-> member.offset, bitOffset |-> member.bitOffset]

\* Two closed structures with the same members declared, whatever comments
\* lie between them.
SameButComments(i, j) ==
    /\ i # j
    /\ nodes[i].aggType = "STRUCT" /\ nodes[j].aggType = "STRUCT"
    /\ nodes[i].parent # 0 /\ nodes[i].parent = nodes[j].parent
    /\ nodes[nodes[i].parent].aggType = "UNION"
    /\ DeclaredSeq(nodes[i].members) # <<>>
    /\ [k \in 1..Len(DeclaredSeq(nodes[i].members)) |->
           declarationOf(DeclaredSeq(nodes[i].members)[k])]
       = [k \in 1..Len(DeclaredSeq(nodes[j].members)) |->
           declarationOf(DeclaredSeq(nodes[j].members)[k])]

\* C21: comments take no part in the layout: two structures that differ only
\* in the comments among their members (before the first, between two, after
\* the last) have their members at the same offsets and bit offsets and have
\* the same size.
C21_CommentsOutsideLayout ==
    \A i, j \in ClosedNodes :
        SameButComments(i, j) =>
            /\ nodes[i].size = nodes[j].size
            /\ [k \in 1..Len(DeclaredSeq(nodes[i].members)) |->
                   placeOf(DeclaredSeq(nodes[i].members)[k])]
               = [k \in 1..Len(DeclaredSeq(nodes[j].members)) |->
                   placeOf(DeclaredSeq(nodes[j].members)[k])]

\* ----------------------------------------------------------- module claims
\* The module's tables are empty and no module is open.
ModuleReleased ==
    /\ tables.locals = <<>> /\ tables.constants = <<>>
    /\ tables.declares = <<>> /\ tables.items = <<>>
    /\ tables.entries = <<>> /\ nodes = <<>>
    /\ module = "NULL"

\* C22: sdl_module_end called with no module open (after the end of the
\* module, no MODULE in between) returns SDL_MATCHEND or the invalid-state
\* error and leaves every table of the module empty.
C22_SecondEndRejected ==
    [][(module = "NULL" /\ call'.op = "module_end")
           => (retVal' \in {"SDL_MATCHEND", "SDL_INVCONDST"} /\ ModuleReleased')]_vars

Closing == IF aggregateDepth = 1 THEN lastAggregate ELSE currentAggr

\* C24: closing a (sub)aggregate that has no members returns SDL_NULLSTRUCT
\* and leaves it with size 0 and an empty member list.
C24_EmptyAggregateRejected ==
    [][(/\ call'.op = "aggregate_compl"
        /\ processingEnabled
        /\ currentAggr # 0
        /\ nodes[Closing].members = <<>>)
           => /\ retVal' = "SDL_NULLSTRUCT"
              /\ nodes'[Closing].size = 0
              /\ nodes'[Closing].members = <<>>]_vars

\* C24, amended: closing a (sub)aggregate that has no members returns
\* SDL_NULLSTRUCT where the END carries no name or the (sub)aggregate's name,
\* SDL_MATCHEND where it carries another name; either way the (sub)aggregate
\* is left with size 0 and an empty member list.
C24_EmptyAggregateRejectedByName ==
    [][(/\ call'.op = "aggregate_compl"
        /\ processingEnabled
        /\ currentAggr # 0
        /\ nodes[Closing].members = <<>>)
           => /\ retVal' = IF call'.arg \in {"NULL", nodes[Closing].id}
                           THEN "SDL_NULLSTRUCT" ELSE "SDL_MATCHEND"
              /\ nodes'[Closing].size = 0
              /\ nodes'[Closing].members = <<>>]_vars

\* An implicit union over a longword was closed with no members, by an END
\* with its name.
C24_EmptyUnionClosed ==
    /\ call.op = "aggregate_compl" /\ call.arg = "a"
    /\ retVal = "SDL_NULLSTRUCT"
    /\ Len(nodes) = 1
    /\ nodes[1].closed /\ nodes[1].type = "LONG"
    /\ nodes[1].members = <<>> /\ nodes[1].size = 0

\* ---------------------------------------------------------- length claims
\* C25: a bitfield member declared with a length of zero or less is rejected
\* with SDL_ZEROLEN. (Stated for declarations whose bitfields all have such a
\* length, NoLengthDecls.)
C25_NoLengthRejected ==
    [][(/\ call'.op = "aggregate_member"
        /\ call'.arg = "BITFLD"
        /\ currentAggr # 0)
           => retVal' = "SDL_ZEROLEN"]_vars

\* --------------------------------------------------------- packing claims
\* The closed structures that declare three unsized bitfields of the lengths
\* 3, 5 and 1, in that order, and nothing else.
Packed351 ==
    {i \in ClosedNodes :
        /\ nodes[i].aggType = "STRUCT"
        /\ [k \in 1..Len(DeclaredSeq(nodes[i].members)) |->
               declarationOf(DeclaredSeq(nodes[i].members)[k])]
           = [k \in 1..3 |->
               [type |-> "BITFLD", subType |-> "BYTE", length |-> <<3, 5, 1>>[k],
                sizedBitfield |-> FALSE, dimension |-> 1]]}

\* C26: a structure of three unsized bitfields of the lengths 3, 5 and 1 has
\* them at the bit offsets 0, 3, 0 and the byte offsets 0, 0, 1, and has the
\* size 2.
C26_ThreeBitfieldsPacked ==
    \A i \in Packed351 :
        /\ [k \in 1..3 |-> placeOf(DeclaredSeq(nodes[i].members)[k])]
           = <<[offset |-> 0, bitOffset |-> 0], [offset |-> 0, bitOffset |-> 3],
               [offset |-> 1, bitOffset |-> 0]>>
        /\ nodes[i].size = 2

\* ------------------------------------------------------- alignment claims
\* The alignment a structure laid out with Align or with an explicit alignment
\* is rounded to: the explicit N, or under Align the size of its largest item.
structAlignment(i) ==
    IF nodes[i].alignment = SDL_K_ALIGN
    THEN Max({1} \cup {nodes[i].members[k].size :
                          k \in {q \in NonComments(nodes[i].members) :
                                    sdl_isItem(nodes[i].members[q])}})
    ELSE nodes[i].alignment

\* C27: a closed structure laid out with Align or an explicit alignment has
\* the size of its last member's offset plus size times dimension, rounded up
\* to the structure's alignment, and so a multiple of that alignment.
C27_StructSizeRounded ==
    \A i \in ClosedNodes :
        LET ms == nodes[i].members
            p == LastLaidOut(ms)
            end == ms[p].offset +
                       (IF sdl_isItem(ms[p]) THEN ms[p].size * dimensionOf(ms[p])
                        ELSE nodes[ms[p].sub].size * dimensionOf(nodes[ms[p].sub]))
        IN  (/\ nodes[i].aggType = "STRUCT"
             /\ nodes[i].alignment # SDL_K_NOALIGN
             /\ p # 0) =>
                /\ nodes[i].size = end + adjustmentOf(end, structAlignment(i))
                /\ nodes[i].size % structAlignment(i) = 0

\* ----------------------------------------------------- enumeration claims
\* C28: a constant list completed as an enumeration with no Increment option
\* gives its successive names values that increase by 1.
C28_EnumerationCounts ==
    [][(/\ call'.op = "constant_compl"
        /\ processingEnabled
        /\ optionOf("Enumerate") # 0
        /\ optionOf("Increment") = 0
        /\ Len(tables'.enums) > Len(tables.enums)) =>
            LET ms == tables'.enums[Len(tables'.enums)].members
            IN  \A k \in 2..Len(ms) : ms[k].value = ms[k - 1].value + 1]_vars

\* ------------------------------------------------------- buffer claims
\* The entry points that complete an entity.
Completing ==
    {"declare_compl", "item_compl", "constant_compl", "aggregate_member",
     "aggregate_compl", "entry"}

C30_ListingPaged ==
    /\ ~listing.headless
    /\ ~listing.long
    /\ ~listing.wide

\* ---------------------------------------------------- END option claims
\* The member list of a node of the next state carries the option o at its
\* member k.
Carries(ms, k, o) ==
    CASE o.option \in {"Align", "NoAlign", "BaseAlign"} ->
            ms[k].alignment = alignmentOf(o)
      [] o.option = "Dimension" ->
            /\ ms[k].dimension
            /\ ms[k].lbound = dimensions[o.value].lbound
            /\ ms[k].hbound = dimensions[o.value].hbound
      [] OTHER -> TRUE

\* C31: the options pending when the END of an aggregate or subaggregate is
\* processed are applied to the most recent item member of the aggregate
\* being closed.
C31_EndOptionsApplied ==
    [][(/\ call'.op = "aggregate_compl"
        /\ processingEnabled
        /\ retVal' \in {"SDL_NORMAL", "SDL_MATCHEND"}
        /\ currentAggr # 0
        /\ options # <<>>) =>
            LET n == IF aggregateDepth = 1 THEN lastAggregate ELSE currentAggr
                items == {k \in 1..Len(nodes[n].members) :
                             sdl_isItem(nodes[n].members[k])}
            IN  items # {} =>
                    \A i \in 1..Len(options) :
                        Carries(nodes'[n].members, Max(items), options[i])]_vars

\* ----------------------------------------------- re-declaration claims
\* The step is the completion op of a directive that named an entity already
\* registered in table: the entity queued last is complete before it.
Redeclared(op, table) ==
    /\ call'.op = op
    /\ processingEnabled
    /\ retVal' \in {"SDL_NORMAL", "SDL_ABORT"}
    /\ tables[table] # <<>>
    /\ ~pending(tables[table])

\* C32: a DECLARE or ITEM that names a declare or item already registered
\* adds no record, and the completion that follows it changes no record
\* registered before and calls no backend.
C32_RedeclarationCreatesOnly ==
    [][/\ (call'.op = "declare" /\ processingEnabled
               /\ call'.arg \in idsIn(tables.declares)) => tables' = tables
       /\ (call'.op = "item" /\ processingEnabled
               /\ call'.arg \in idsIn(tables.items)) => tables' = tables
       /\ Redeclared("declare_compl", "declares") =>
               tables' = tables /\ emitted' = <<>>
       /\ Redeclared("item_compl", "items") =>
               tables' = tables /\ emitted' = <<>>]_vars

\* ------------------------------------------- nested conditional claims
\* The conditional that the innermost one is written in.
enclosing == opened[Len(opened) - 1]

\* C33: the ELSE and the END_IFLANGUAGE of a language conditional written in
\* a branch of a symbol conditional leave the state and the processing gate
\* of the symbol conditional as they were, whether the branch is enabled or
\* not, and the ELSE and END_IFSYMBOL of the symbol conditional that come
\* later are accepted.
C33_LanguageBlockMatched ==
    [][/\ (/\ Len(opened) >= 2
           /\ innermost.kind = "language" /\ enclosing.kind = "symbol"
           /\ call'.op = "Else") =>
               /\ processingEnabled' = innermost.processingEnabled
               /\ Len(condState') >= Len(innermost.condState)
               /\ SubSeq(condState', 1, Len(innermost.condState)) = innermost.condState
       /\ (/\ Len(opened) >= 2
           /\ innermost.kind = "language" /\ enclosing.kind = "symbol"
           /\ call'.op = "EndIfLanguage") =>
               /\ processingEnabled' = innermost.processingEnabled
               /\ condState' = innermost.condState
       /\ (/\ opened # <<>>
           /\ innermost.kind = "symbol" /\ innermost.held
           /\ call'.op \in {"Else", "EndIfSymbol"}) =>
               /\ retVal' = "SDL_NORMAL"
               /\ Len(condState') = Len(innermost.condState)
                                       + (IF call'.op = "Else" THEN 1 ELSE 0)]_vars

\* C34: while the branch of a symbol conditional is disabled, no IFSYMBOL,
\* ELSE or END_IFSYMBOL of a conditional nested in that branch enables
\* processing.
C34_DisabledRegionStays ==
    [][\A i \in 1..Len(opened) :
           (/\ opened[i].kind = "symbol"
            /\ ~opened[i].gate
            /\ \/ call'.op = "IfSymbol"
               \/ i < Len(opened) /\ call'.op \in {"Else", "EndIfSymbol"}) =>
               ~processingEnabled']_vars

\* C35: in the chain of a symbol conditional, once a branch was enabled the
\* branch of every later ELSE_IFSYMBOL and of the ELSE is disabled.
C35_OneBranchEnabled ==
    [][(/\ opened # <<>>
        /\ innermost.kind = "symbol"
        /\ innermost.taken
        /\ call'.op \in {"ElseIfSymbol", "Else"}) =>
           ~processingEnabled']_vars

\* C37: the END_IFLANGUAGE of a language conditional written inside another
\* language conditional leaves the language enable vector as it was before
\* the inner IFLANGUAGE.
C37_LanguagesRestored ==
    [][(/\ Len(opened) >= 2
        /\ innermost.kind = "language" /\ enclosing.kind = "language"
        /\ call'.op = "EndIfLanguage") =>
           langEnableVec' = innermost.langEnableVec]_vars

\* C36: a conditional directive that returns SDL_SYMNOTDEF or SDL_INVCONDST
\* leaves the conditional state stack, the processing gate and the language
\* enable vector as they were.
C36_RejectedDirectiveChangesNothing ==
    [][(call'.op \in Directives /\ retVal' \in {"SDL_SYMNOTDEF", "SDL_INVCONDST"}) =>
           UNCHANGED condVars]_vars

\* C38: at every point of every directive sequence the aggregate depth is the
\* number of aggregates and subaggregates opened and not yet closed, it is never
\* negative, and the cursor is absent exactly when the depth is 0, also when
\* conditional directives come between an aggregate's directives and when a
\* member or an END arrives with no aggregate open.
C38_CursorTracksDepth ==
    /\ aggregateDepth >= 0
    /\ aggregateDepth = Cardinality({i \in 1..Len(nodes) : ~nodes[i].closed})
    /\ (currentAggr = 0) <=> (aggregateDepth = 0)

\* C39: when the END of an aggregate fails with SDL_MATCHEND or SDL_NULLSTRUCT,
\* the backends are called for nothing of it: no start, member or end of the
\* aggregate and no size, bitfield size or mask constant.
C39_FailedCloseEmitsNothing ==
    [][call'.op = "aggregate_compl"
       /\ retVal' \in {"SDL_MATCHEND", "SDL_NULLSTRUCT"}
       => emitted' = <<>>]_vars

\* C40: after sdl_module_end has returned the aggregate cursor is reset, depth
\* 0 and no current aggregate, also when the module ended with an aggregate
\* open, so that no later directive reaches an aggregate the end released.
C40_ModuleEndResetsCursor ==
    call.op = "module_end" /\ Alive
    => aggregateDepth = 0 /\ currentAggr = 0

====
